---- MODULE Spec2Model ----
(***************************************************************************)
(* Verification model of WebAI-to-API: the API-key gate (app/security.py), *)
(* the HTTP route handlers (app/endpoints/chat.py, gemini.py,              *)
(* google_generative.py) and the model-list cache (app/endpoints/models.py)*)
(* Texts are sequences of one-character strings so that stripping,         *)
(* slicing and concatenation are computed, not assumed.                    *)
(***************************************************************************)
EXTENDS Integers, Sequences, FiniteSets, TLC

\* ------------------------------------------------------------------------
\* Bounds of the model
\* ------------------------------------------------------------------------
MaxKeyLen == 2
MaxTextLen == 2
MaxChunks == 2
MaxTicks == 2
MaxReqs == 3
MaxLoads == 2
MaxPlainLen == 2
MaxNet == 4
MaxParts == 2
MaxMsgs == 2

\* ------------------------------------------------------------------------
\* State
\* ------------------------------------------------------------------------
\* the API-key gate
VARIABLES
    authConfig,     \* CONFIG's [Auth] api_key value (None: key missing)
    authCred,       \* credentials of the request being verified
    authResult      \* NoResult before the request, else the gate's outcome

\* the route handlers
VARIABLES
    globalClient,       \* get_gemini_client() returns a handle
    route,              \* the route being served, "none" before the request
    pc,                 \* position of the handler
    request,            \* the chat request being served
    target_model,       \* chat_completions' target_model
    full_prompt,        \* chat_completions' full_prompt
    attempt,            \* loop index of the retry loop
    last_transport_exc, \* chat_completions' last_transport_exc
    trace,              \* upstream and reinitialization calls made, in order
    response,           \* what the caller receives
    raised,             \* the exception that ended the processing, if any
    extracted_files,    \* temporary files of the request
    tmpFiles,           \* temporary files that exist on disk
    upstream,           \* chunks received from the upstream stream
    frames,             \* server-sent-event frames emitted
    last_text_len,      \* generate_openai_stream's last_text_len
    last_thought_len    \* generate_openai_stream's last_thought_len

\* the model-list cache
VARIABLES
    CACHED_MODELS,      \* _CACHED_MODELS: None or a list of model names
    CACHE_TIMESTAMP,    \* _CACHE_TIMESTAMP
    now,                \* time.time()
    ticks,              \* number of clock advances so far
    libModels,          \* model_name of the members of the library's Model enum
    mreq,               \* the model-list requests: position and response of each
    log                 \* calls completed and cache writes, in order

\* the configuration loader
VARIABLES
    configFile,         \* the configuration file on disk
    loads               \* the load_config calls made, in order

\* the cookie extractor
VARIABLES
    decrypted,          \* the last _decrypt_chrome_cookie_value call
    extraction          \* the last get_cookie_from_browser call

\* the HTTP clients of the process
VARIABLES
    httpClients,        \* the client instances that exist
    netLog              \* the network requests issued, in order

\* build_context_prompt, called on its own
VARIABLES
    built               \* the last build_context_prompt call

\* the cookie readers that start a browser or copy its database
VARIABLES
    devtools,           \* the _get_chromium_cookies_via_devtools call
    dbread              \* the direct database read in progress

authVars == <<authConfig, authCred, authResult>>

chatVars ==
    <<globalClient, route, pc, request, target_model, full_prompt, attempt,
      last_transport_exc, trace, response, raised, extracted_files, tmpFiles,
      upstream, frames, last_text_len, last_thought_len>>

streamVars == <<upstream, frames, last_text_len, last_thought_len>>

modelVars == <<CACHED_MODELS, CACHE_TIMESTAMP, now, ticks, libModels, mreq, log>>

configVars == <<configFile, loads>>

cookieVars == <<decrypted, extraction>>

netVars == <<httpClients, netLog>>

\* the components added to the model after the gate, the handlers and the cache
promptVars == <<built>>

readerVars == <<devtools, dbread>>

restVars == <<configVars, cookieVars, netVars, promptVars, readerVars>>

vars == <<authVars, chatVars, modelVars, restVars>>

\* ------------------------------------------------------------------------
\* Text helpers
\* ------------------------------------------------------------------------
\* the absent text (Python None where a str is expected); no text of the
\* model contains the element "None"
None == <<"None">>

\* no response yet
NoResult == [status |-> 0, detail |-> "none"]

SeqsUpTo(S, n) == UNION {[1..k -> S] : k \in 0..n}

IsSpace(c) == c = " "

RECURSIVE LStrip(_)
LStrip(s) == IF s # <<>> /\ IsSpace(Head(s)) THEN LStrip(Tail(s)) ELSE s

RECURSIVE RStrip(_)
RStrip(s) ==
    IF s # <<>> /\ IsSpace(s[Len(s)]) THEN RStrip(SubSeq(s, 1, Len(s) - 1)) ELSE s

\* str.strip()
Strip(s) == RStrip(LStrip(s))

\* s[n:] of Python, n counted from 0
SliceFrom(s, n) == SubSeq(s, n + 1, Len(s))

\* ------------------------------------------------------------------------
\* API-key gate (app/security.py)
\* ------------------------------------------------------------------------
KeyChars == {" ", "a", "b"}

\* what the configuration file may hold under [Auth] api_key; None: no key
RawKeys == SeqsUpTo(KeyChars, MaxKeyLen) \cup {None}

\* the value the configuration holds after config.read: values are stored
\* without their leading and trailing whitespace
ConfigValue(raw) == IF raw = None THEN None ELSE Strip(raw)

\* HTTPBearer(auto_error=False): None without a bearer token, else the token
Credentials == (SeqsUpTo(KeyChars, MaxKeyLen) \ {<<>>}) \cup {None}

\* CONFIG.get("Auth", "api_key", fallback="").strip()
expected_api_key(cfg) == Strip(IF cfg = None THEN <<>> ELSE cfg)

verify_api_key_NoMissingCheck(cfg, cred) ==
    LET expected == expected_api_key(cfg) IN
    IF expected = <<>> THEN [status |-> 200, detail |-> "admitted"]
    ELSE IF cred # None /\ cred # expected
         THEN [status |-> 401, detail |-> "Invalid API Key"]
    ELSE [status |-> 200, detail |-> "admitted"]

verify_api_key(cfg, cred) ==
    LET expected == expected_api_key(cfg) IN
    IF expected = <<>> THEN [status |-> 200, detail |-> "admitted"]
    ELSE IF cred = None
         THEN [status |-> 401, detail |-> "Missing authentication credentials"]
    ELSE IF cred # expected
         THEN [status |-> 401, detail |-> "Invalid API Key"]
    ELSE [status |-> 200, detail |-> "admitted"]


InitAuth ==
    /\ authConfig \in {ConfigValue(raw) : raw \in RawKeys}
    /\ authCred = None
    /\ authResult = NoResult

\* one request passes through the Security(verify_api_key) dependency
VerifyRequest(cred) ==
    /\ authResult = NoResult
    /\ authCred' = cred
    /\ authResult' = verify_api_key(authConfig, cred)
    /\ UNCHANGED <<authConfig, chatVars, modelVars, restVars>>

NextAuth == \E cred \in Credentials : VerifyRequest(cred)


\* ------------------------------------------------------------------------
\* Route handlers (app/endpoints/chat.py, gemini.py, google_generative.py)
\* ------------------------------------------------------------------------
TextChars == {"a", "b"}

\* response.text of the upstream library
Texts == SeqsUpTo(TextChars, MaxTextLen)

\* response.thoughts / chunk.thoughts of the upstream library
Thoughts == {None, <<"t">>, <<"t", "u">>}

\* model names a caller may request
RequestModels == {<<"gpt-", "4">>, <<"text-", "davinci">>, <<"gemini-", "3.0-pro">>}

\* str.startswith for a name held as <<prefix up to the first "-", rest>>
StartsWith(name, prefix) == name # <<>> /\ name[1] = prefix

\* not x, for x a str or None
Falsy(x) == x = None \/ x = <<>>

NoExc == [type |-> "none", msg |-> "none"]

Exc(type, msg) == [type |-> type, msg |-> msg]

\* what awaiting gemini_client.generate_content can produce
GenerateOutcomes ==
    [kind : {"ok"}, text : Texts \cup {None}, thoughts : Thoughts, exc : {NoExc}]
    \cup [kind : {"none"}, text : {None}, thoughts : {None}, exc : {NoExc}]
    \cup [kind : {"raise"}, text : {None}, thoughts : {None},
          exc : {Exc("RemoteProtocolError", "peer closed"),
                 Exc("RemoteProtocolError", "bad chunk"),
                 Exc("Exception", "upstream failed")}]

\* what awaiting init_gemini_client, then get_gemini_client, can produce
InitOutcomes ==
    [kind : {"return"}, ok : BOOLEAN, handle : BOOLEAN, exc : {NoExc}]
    \cup [kind : {"raise"}, ok : {FALSE}, handle : BOOLEAN,
          exc : {Exc("Exception", "init failed")}]

\* ---- build_context_prompt ----
\* a message without a "role" key
NoRole == "(no role)"

Roles == {NoRole, "user", "SYSTEM"}

\* the url of an image_url part: whether it starts with "data:image",
\* whether it holds a comma, whether its base64 payload is correctly padded
Url(dataImage, comma, padded) ==
    [dataImage |-> dataImage, comma |-> comma, padded |-> padded]

NoUrl == Url(FALSE, FALSE, FALSE)

TextPart(text) == [type |-> "text", text |-> text, url |-> NoUrl]

ImagePart(url) == [type |-> "image_url", text |-> <<>>, url |-> url]

\* a part that is neither text nor image_url
OtherPart == [type |-> "input_audio", text |-> <<>>, url |-> NoUrl]

\* a message whose content is a str
TextMessage(role, text) ==
    [role |-> role, isList |-> FALSE, text |-> text, parts |-> <<>>]

\* a message whose content is a list of parts
ListMessage(role, parts) ==
    [role |-> role, isList |-> TRUE, text |-> <<>>, parts |-> parts]

\* str.capitalize(): first character upper case, the others lower case
capitalize(role) ==
    CASE role = "user" -> "User"
      [] role = "SYSTEM" -> "System"
      [] role = "assistant" -> "Assistant"
      [] OTHER -> role

\* sep.join(texts)
RECURSIVE Join(_, _)
Join(texts, sep) ==
    IF texts = <<>> THEN <<>>
    ELSE IF Len(texts) = 1 THEN texts[1]
    ELSE texts[1] \o sep \o Join(Tail(texts), sep)

\* f"{role.capitalize()}: {text_content}"
Segment_NoCapitalize(role, text_content) == <<role, ": ">> \o text_content

Segment(role, text_content) == <<capitalize(role), ": ">> \o text_content

\* the locals of build_context_prompt, and the files mkstemp has created
Building(prompt_parts, text_parts, file_paths, created) ==
    [prompt_parts |-> prompt_parts, text_parts |-> text_parts,
     file_paths |-> file_paths, created |-> created]

\* one part of a list content
ScanPart(st, part) ==
    IF part.type = "text"
    THEN [st EXCEPT !.text_parts = Append(@, part.text)]
    ELSE IF part.type = "image_url" /\ part.url.dataImage
    THEN IF ~part.url.comma
         THEN st   \* image_url.split(",", 1) does not unpack: no file yet
         ELSE LET path == Cardinality(st.created) + 1 IN
              IF ~part.url.padded
              THEN \* mkstemp has made the file, b64decode raises
                   [st EXCEPT !.created = @ \cup {path}]
              ELSE [st EXCEPT !.created = @ \cup {path},
                              !.file_paths = Append(@, path)]
    ELSE st

RECURSIVE ScanParts(_, _)
ScanParts(st, parts) ==
    IF parts = <<>> THEN st
    ELSE ScanParts(ScanPart(st, Head(parts)), Tail(parts))

\* one message
ScanMessage(st, msg) ==
    LET role == IF msg.role = NoRole THEN "user" ELSE msg.role IN
    IF msg.isList
    THEN LET after == ScanParts([st EXCEPT !.text_parts = <<>>], msg.parts) IN
         [after EXCEPT !.prompt_parts =
              Append(@, Segment(role, Join(after.text_parts, <<" ">>)))]
    ELSE [st EXCEPT !.prompt_parts = Append(@, Segment(role, msg.text))]

RECURSIVE ScanMessages(_, _)
ScanMessages(st, messages) ==
    IF messages = <<>> THEN st
    ELSE ScanMessages(ScanMessage(st, Head(messages)), Tail(messages))

\* the prompt, the file list, and the temporary files left on disk
build_context_prompt(messages) ==
    LET st == ScanMessages(Building(<<>>, <<>>, <<>>, {}), messages) IN
    [prompt |-> Join(st.prompt_parts, <<"\n\n">>),
     file_paths |-> st.file_paths,
     created |-> st.created]

\* the set of the elements of a list
Range(s) == {s[n] : n \in DOMAIN s}

GoodImage == ImagePart(Url(TRUE, TRUE, TRUE))

\* incorrect padding: base64.b64decode raises binascii.Error
BadPaddingImage == ImagePart(Url(TRUE, TRUE, FALSE))

\* "data:image/png;base64" without a comma
NoCommaImage == ImagePart(Url(TRUE, FALSE, TRUE))

\* an http url
RemoteImage == ImagePart(Url(FALSE, TRUE, TRUE))

\* the message lists of the chat requests
MessageLists ==
    { <<>>,
      <<TextMessage("user", <<"a">>)>>,
      <<TextMessage("SYSTEM", <<"b">>),
        ListMessage(NoRole, <<TextPart(<<"a">>), GoodImage, TextPart(<<"b">>), GoodImage>>)>>,
      <<ListMessage("user", <<BadPaddingImage, GoodImage, NoCommaImage>>)>> }

ChatRequests ==
    { [stream |-> s, hasMessages |-> m # <<>>, model |-> md, messages |-> m] :
        s \in BOOLEAN, m \in MessageLists, md \in RequestModels }

max_attempts_Three == 1 + 2

max_attempts == 2

NoBody == [object |-> "none"]

HTTPException(status, prefix, msg) ==
    [status |-> status, detail |-> <<prefix, msg>>, body |-> NoBody]

normalize_model_name_GptOnly(model) ==
    IF StartsWith(model, "gpt-") THEN <<"gemini-", "3.0-flash">> ELSE model

normalize_model_name(model) ==
    IF StartsWith(model, "gpt-") \/ StartsWith(model, "text-")
    THEN <<"gemini-", "3.0-flash">>
    ELSE model

convert_to_openai_format_Truncating(response_text, model, stream, reasoning_content) ==
    [object |-> "chat.completion",
     model |-> model,
     choices |-> << [index |-> 0,
                     message |-> [role |-> "assistant",
                                  content |-> SubSeq(response_text, 1, 1),
                                  reasoning_content |->
                                      IF Falsy(reasoning_content) THEN None
                                      ELSE reasoning_content],
                     finish_reason |-> "stop"] >>,
     usage |-> [prompt_tokens |-> 0,
                completion_tokens |-> Len(response_text) \div 4,
                total_tokens |-> Len(response_text) \div 4]]

convert_to_openai_format(response_text, model, stream, reasoning_content) ==
    LET completion_tokens ==
            (Len(response_text) \div 4)
            + (IF Falsy(reasoning_content) THEN 0 ELSE Len(reasoning_content) \div 4)
    IN
    [object |-> "chat.completion",
     model |-> model,
     choices |-> << [index |-> 0,
                     message |-> [role |-> "assistant",
                                  content |-> response_text,
                                  reasoning_content |->
                                      IF Falsy(reasoning_content) THEN None
                                      ELSE reasoning_content],
                     finish_reason |-> "stop"] >>,
     usage |-> [prompt_tokens |-> 0,
                completion_tokens |-> completion_tokens,
                total_tokens |-> completion_tokens]]


NoRequest == [stream |-> FALSE, hasMessages |-> FALSE, model |-> <<>>, messages |-> <<>>]

NoResponse == [status |-> 0, detail |-> <<>>, body |-> NoBody]

ChatRest ==
    /\ route = "none"
    /\ pc = "idle"
    /\ request = NoRequest
    /\ target_model = <<>>
    /\ full_prompt = <<>>
    /\ attempt = 0
    /\ last_transport_exc = NoExc
    /\ trace = <<>>
    /\ response = NoResponse
    /\ raised = NoExc
    /\ extracted_files = {}
    /\ tmpFiles = {}
    /\ upstream = <<>>
    /\ frames = <<>>
    /\ last_text_len = 0
    /\ last_thought_len = 0

\* one entry of trace: a call made to the upstream library or to
\* init_gemini_client, with what it produced
Event(op, kind, exc, text, success) ==
    [op |-> op, kind |-> kind, exc |-> exc, text |-> text, success |-> success,
     attempt |-> attempt, filesPresent |-> extracted_files \subseteq tmpFiles,
     model |-> target_model, prompt |-> full_prompt]

\* except httpx.RemoteProtocolError
IsTransportError_OrEmpty(out) ==
    \/ out.kind = "raise" /\ out.exc.type = "RemoteProtocolError"
    \/ out.kind = "ok" /\ Falsy(out.text)

IsTransportError(out) ==
    out.kind = "raise" /\ out.exc.type = "RemoteProtocolError"

\* the handler's finally block: every extracted file is removed
Cleanup == tmpFiles' = tmpFiles \ extracted_files

\* the handler ends: the caller receives resp, exc is what ended it
Finish(resp, exc) ==
    /\ response' = resp
    /\ raised' = exc
    /\ pc' = "done"

\* except Exception as e: HTTPException(500, f"Error processing chat completion: {e}")
ChatFail_NoDetail(exc) ==
    /\ Finish(HTTPException(500, "Error processing chat completion: ", "error"), exc)
    /\ Cleanup

ChatFail(exc) ==
    /\ Finish(HTTPException(500, "Error processing chat completion: ", exc.msg), exc)
    /\ Cleanup

\* POST /v1/chat/completions up to the first await
ChatStart(req) ==
    /\ pc = "idle"
    /\ route' = "chat"
    /\ request' = req
    /\ IF ~globalClient
       THEN /\ Finish(HTTPException(503, "Gemini client is not initialized.", ""), NoExc)
            /\ UNCHANGED <<target_model, full_prompt, extracted_files, tmpFiles>>
       ELSE IF req.messages = <<>>
       THEN /\ Finish(HTTPException(400, "No messages provided.", ""), NoExc)
            /\ UNCHANGED <<target_model, full_prompt, extracted_files, tmpFiles>>
       ELSE LET b == build_context_prompt(req.messages) IN
            /\ target_model' = normalize_model_name(req.model)
            /\ full_prompt' = b.prompt
            /\ extracted_files' = Range(b.file_paths)
            /\ IF req.stream
               THEN \* the generator object is created, not started; the
                    \* return runs the finally block, which removes the files
                    /\ response' = [status |-> 200, detail |-> <<>>,
                                    body |-> [object |-> "text/event-stream"]]
                    /\ tmpFiles' = (tmpFiles \cup b.created) \ Range(b.file_paths)
                    /\ pc' = "stream_role"
                    /\ UNCHANGED raised
               ELSE /\ tmpFiles' = tmpFiles \cup b.created
                    /\ pc' = "call"
                    /\ UNCHANGED <<response, raised>>
    /\ UNCHANGED <<globalClient, attempt, last_transport_exc,
                   trace, streamVars, authVars, modelVars, restVars>>

\* the body of the retry loop: await gemini_client.generate_content(...)
GenerateContent(out) ==
    /\ pc = "call"
    /\ trace' = Append(trace, Event("generate_content", out.kind, out.exc, out.text,
                                     out.kind = "ok"))
    /\ IF IsTransportError(out)
       THEN /\ last_transport_exc' = out.exc
            /\ IF attempt + 1 >= max_attempts
               THEN ChatFail(out.exc)
               ELSE /\ pc' = "reinit"
                    /\ UNCHANGED <<response, raised, tmpFiles>>
       ELSE /\ UNCHANGED last_transport_exc
            /\ IF out.kind = "raise"
               THEN ChatFail(out.exc)
               ELSE IF out.kind = "none"
               THEN ChatFail(IF last_transport_exc # NoExc THEN last_transport_exc
                             ELSE Exc("RuntimeError", "Gemini client returned no response"))
               ELSE IF Falsy(out.text)
               THEN ChatFail(Exc("ValueError",
                        "Empty response from Gemini. Check server logs for parsing errors."))
               ELSE /\ Finish([status |-> 200, detail |-> <<>>,
                               body |-> convert_to_openai_format(
                                            out.text, request.model, FALSE, out.thoughts)],
                              NoExc)
                    /\ Cleanup
    /\ UNCHANGED <<globalClient, route, request, target_model, full_prompt, attempt,
                   extracted_files, streamVars, authVars, modelVars, restVars>>

\* after a first transport error: await init_gemini_client(), get_gemini_client()
ReinitClient(out) ==
    /\ pc = "reinit"
    /\ trace' = Append(trace, Event("init_gemini_client", out.kind, out.exc, None,
                                     out.kind = "return" /\ out.ok /\ out.handle))
    /\ globalClient' = out.handle
    /\ IF out.kind = "raise"
       THEN ChatFail(out.exc) /\ UNCHANGED attempt
       ELSE IF ~out.ok \/ ~out.handle
       THEN ChatFail(last_transport_exc) /\ UNCHANGED attempt
       ELSE /\ attempt' = attempt + 1
            /\ pc' = "call"
            /\ UNCHANGED <<response, raised, tmpFiles>>
    /\ UNCHANGED <<route, request, target_model, full_prompt, last_transport_exc,
                   extracted_files, streamVars, authVars, modelVars, restVars>>

\* ------------------------------------------------------------------------
\* generate_openai_stream over an upstream async generator
\* ------------------------------------------------------------------------
\* what the upstream stream can yield: chunk.text and chunk.thoughts
Chunks == [text : Texts, thoughts : Thoughts]

StreamErrors == {Exc("RemoteProtocolError", "peer closed")}

Frame(kind, model, piece) == [kind |-> kind, model |-> model, piece |-> piece]

DoneFrame == Frame("done", <<>>, <<>>)

\* the frames one upstream chunk produces: reasoning delta, then content delta
ChunkFrames_Resend(chunk, model, textLen, thoughtLen) ==
    (IF ~Falsy(chunk.thoughts) /\ Len(chunk.thoughts) > thoughtLen
     THEN <<Frame("reasoning", model, SliceFrom(chunk.thoughts, thoughtLen))>>
     ELSE <<>>)
    \o (IF ~Falsy(chunk.text)
        THEN <<Frame("content", model, chunk.text)>>
        ELSE <<>>)

ChunkFrames(chunk, model, textLen, thoughtLen) ==
    (IF ~Falsy(chunk.thoughts) /\ Len(chunk.thoughts) > thoughtLen
     THEN <<Frame("reasoning", model, SliceFrom(chunk.thoughts, thoughtLen))>>
     ELSE <<>>)
    \o (IF ~Falsy(chunk.text) /\ Len(chunk.text) > textLen
        THEN <<Frame("content", model, SliceFrom(chunk.text, textLen))>>
        ELSE <<>>)

\* the upstream call starts when the response generator is first iterated
StartUpstream ==
    trace' = IF trace = <<>>
             THEN <<Event("generate_content_stream", "start", NoExc, None, TRUE)>>
             ELSE trace

chatFrame ==
    <<globalClient, route, request, target_model, full_prompt, attempt,
      last_transport_exc, response, extracted_files, tmpFiles,
      authVars, modelVars, restVars>>

\* 1. the initial chunk with the role
StreamRole ==
    /\ pc = "stream_role"
    /\ frames' = <<Frame("role", request.model, <<>>)>>
    /\ pc' = "stream_iter"
    /\ UNCHANGED <<chatFrame, trace, raised, upstream, last_text_len, last_thought_len>>

\* 2. one iteration of "async for chunk in data_source"
StreamChunk(chunk) ==
    /\ pc = "stream_iter"
    /\ Len(upstream) < MaxChunks
    /\ StartUpstream
    /\ upstream' = Append(upstream, chunk)
    /\ frames' = frames \o ChunkFrames(chunk, request.model, last_text_len, last_thought_len)
    /\ last_thought_len' =
          IF ~Falsy(chunk.thoughts) /\ Len(chunk.thoughts) > last_thought_len
          THEN Len(chunk.thoughts) ELSE last_thought_len
    /\ last_text_len' =
          IF ~Falsy(chunk.text) /\ Len(chunk.text) > last_text_len
          THEN Len(chunk.text) ELSE last_text_len
    /\ UNCHANGED <<chatFrame, pc, raised>>

\* 3. the final chunk and the [DONE] sentinel
FinalFrames_NoDone(model) == <<Frame("finish", model, <<>>)>>

FinalFrames(model) == <<Frame("finish", model, <<>>), DoneFrame>>

\* the upstream generator raises: caught and logged inside the generator,
\* which then sends the final frames
StreamRaise(exc) ==
    /\ pc = "stream_iter"
    /\ StartUpstream
    /\ raised' = exc
    /\ frames' = frames \o FinalFrames(request.model)
    /\ pc' = "done"
    /\ UNCHANGED <<chatFrame, upstream, last_text_len, last_thought_len>>

\* the upstream generator is exhausted: the final frames are sent
StreamEnd ==
    /\ pc = "stream_iter"
    /\ StartUpstream
    /\ frames' = frames \o FinalFrames(request.model)
    /\ pc' = "done"
    /\ UNCHANGED <<chatFrame, raised, upstream, last_text_len, last_thought_len>>

\* ------------------------------------------------------------------------
\* The single-call routes: /gemini, /gemini-chat, /translate, /v1beta/models
\* ------------------------------------------------------------------------
NotInitialized_AsError == HTTPException(500, "Gemini client is not initialized.", "")

NotInitialized == HTTPException(503, "Gemini client is not initialized.", "")

NoneHasNoText == Exc("AttributeError", "'NoneType' object has no attribute 'text'")

\* try: response = await <call>; return {"response": response.text}
\* except Exception as e: raise HTTPException(500, f"{prefix}{e}")
CallAndReturn_NoMessage(prefix, out) ==
    IF out.kind = "raise"
    THEN Finish(HTTPException(500, prefix, ""), out.exc)
    ELSE IF out.kind = "none"
    THEN Finish(HTTPException(500, prefix, NoneHasNoText.msg), NoneHasNoText)
    ELSE Finish([status |-> 200, detail |-> <<>>,
                 body |-> [object |-> "response", text |-> out.text]], NoExc)

CallAndReturn(prefix, out) ==
    IF out.kind = "raise"
    THEN Finish(HTTPException(500, prefix, out.exc.msg), out.exc)
    ELSE IF out.kind = "none"
    THEN Finish(HTTPException(500, prefix, NoneHasNoText.msg), NoneHasNoText)
    ELSE Finish([status |-> 200, detail |-> <<>>,
                 body |-> [object |-> "response", text |-> out.text]], NoExc)

CalledUpstream(op, out) ==
    trace' = Append(trace, Event(op, out.kind, out.exc, out.text, out.kind = "ok"))

routeFrame ==
    <<globalClient, request, target_model, full_prompt, attempt, last_transport_exc,
      extracted_files, tmpFiles, streamVars, authVars, modelVars, restVars>>

\* POST /gemini
gemini_generate(out) ==
    /\ pc = "idle"
    /\ route' = "gemini"
    /\ IF ~globalClient
       THEN Finish(NotInitialized, NoExc) /\ UNCHANGED trace
       ELSE CalledUpstream("generate_content", out)
            /\ CallAndReturn("Error generating content: ", out)
    /\ UNCHANGED routeFrame

\* POST /gemini-chat
gemini_chat(session_manager, out) ==
    /\ pc = "idle"
    /\ route' = "gemini-chat"
    /\ IF ~globalClient \/ ~session_manager
       THEN Finish(NotInitialized, NoExc) /\ UNCHANGED trace
       ELSE CalledUpstream("get_response", out)
            /\ CallAndReturn("Error in chat: ", out)
    /\ UNCHANGED routeFrame

\* POST /translate
translate_chat(session_manager, out) ==
    /\ pc = "idle"
    /\ route' = "translate"
    /\ IF ~globalClient \/ ~session_manager
       THEN Finish(NotInitialized, NoExc) /\ UNCHANGED trace
       ELSE CalledUpstream("get_response", out)
            /\ CallAndReturn("Error during translation: ", out)
    /\ UNCHANGED routeFrame

\* POST /v1beta/models/{model}
google_generative_generate(out) ==
    /\ pc = "idle"
    /\ route' = "google"
    /\ IF ~globalClient
       THEN Finish(NotInitialized, NoExc) /\ UNCHANGED trace
       ELSE CalledUpstream("generate_content", out)
            /\ CallAndReturn("Error generating content: ", out)
    /\ UNCHANGED routeFrame

\* ------------------------------------------------------------------------
\* /gemini-image and MyGeminiClient.generate_image
\* ------------------------------------------------------------------------
\* what the environment decides during generate_image
ImageInputs ==
    [tokenPresent : BOOLEAN,
     init : {"ok", "raise"},
     post : {"raise", "non200", "nourl", "url"},
     download : {"raise", "non200", "ok"}]

NoImage == [kind |-> "none", url |-> None, base64 |-> None, local_path |-> None,
            exc |-> NoExc]

generate_image(inp) ==
    IF ~inp.tokenPresent /\ inp.init = "raise"
    THEN [NoImage EXCEPT !.kind = "raise", !.exc = Exc("Exception", "init failed")]
    ELSE IF inp.post # "url"
    THEN NoImage
    ELSE IF inp.download = "ok"
    THEN [NoImage EXCEPT !.kind = "result", !.url = <<"u">>,
                         !.base64 = <<"b">>, !.local_path = <<"p">>]
    ELSE [NoImage EXCEPT !.kind = "result", !.url = <<"u">>]

FailedToGenerate ==
    Exc("HTTPException",
        "424: Failed to generate image. Please checking logs or your account permissions.")

\* POST /gemini-image
gemini_image(inp) ==
    /\ pc = "idle"
    /\ route' = "gemini-image"
    /\ IF ~globalClient
       THEN Finish(NotInitialized, NoExc) /\ UNCHANGED trace
       ELSE LET result == generate_image(inp) IN
            /\ trace' = Append(trace, Event("generate_image", result.kind, result.exc,
                                             None, result.kind = "result"))
            /\ IF result.kind = "raise"
               THEN Finish(HTTPException(500, "Error generating image: ", result.exc.msg),
                           result.exc)
               ELSE IF result.kind = "result" /\ ~Falsy(result.url)
               THEN Finish([status |-> 200, detail |-> <<>>,
                            body |-> [object |-> "image",
                                      local_path |-> result.local_path,
                                      base64 |-> result.base64]], NoExc)
               ELSE \* the HTTPException(424) is raised inside the try block
                    Finish(HTTPException(500, "Error generating image: ",
                                         FailedToGenerate.msg), FailedToGenerate)
    /\ UNCHANGED routeFrame

NextChat ==
    \/ \E req \in ChatRequests : ChatStart(req)
    \/ \E out \in GenerateOutcomes : GenerateContent(out)
    \/ \E out \in InitOutcomes : ReinitClient(out)
    \/ StreamRole
    \/ \E chunk \in Chunks : StreamChunk(chunk)
    \/ StreamEnd
    \/ \E exc \in StreamErrors : StreamRaise(exc)
    \/ \E out \in GenerateOutcomes : gemini_generate(out)
    \/ \E sm \in BOOLEAN, out \in GenerateOutcomes : gemini_chat(sm, out)
    \/ \E sm \in BOOLEAN, out \in GenerateOutcomes : translate_chat(sm, out)
    \/ \E out \in GenerateOutcomes : google_generative_generate(out)
    \/ \E inp \in ImageInputs : gemini_image(inp)

\* ------------------------------------------------------------------------
\* Model-list cache (app/endpoints/models.py)
\* ------------------------------------------------------------------------
CACHE_TTL == 3600

\* amounts by which the clock advances between two steps
TickSteps == {1, CACHE_TTL - 1, CACHE_TTL}

\* model_name of the members of the library's Model enum, as the process
\* may find them
LibraryConstants ==
    { <<"unspecified", "gemini-3.0-pro", "gemini-3.0-flash">>,
      <<"UNSPECIFIED", "", "gemini-3.0-flash">>,
      <<"unspecified">> }

\* str.lower on the names of the model
Lower(name) ==
    IF name \in {"Unspecified", "UNSPECIFIED"} THEN "unspecified" ELSE name

\* str.strip on the items of a comma-separated list
StripName(raw) ==
    CASE raw = " " -> ""
      [] raw = " unspecified" -> "unspecified"
      [] raw = " Unspecified" -> "Unspecified"
      [] raw = " gemini-3.0-pro" -> "gemini-3.0-pro"
      [] raw = " gemini-4.0-ultra " -> "gemini-4.0-ultra"
      [] OTHER -> raw

\* [m for m in names if m and m.lower() != "unspecified"]
ValidModels_CaseSensitive(names) ==
    SelectSeq(names, LAMBDA m : m # "" /\ m # "unspecified")

ValidModels(names) ==
    SelectSeq(names, LAMBDA m : m # "" /\ Lower(m) # "unspecified")

FallbackNoClient ==
    <<"gemini-3.0-pro", "gemini-3.0-flash", "gemini-3.0-flash-thinking">>

FallbackDiscoveryFailed ==
    <<"gemini-3.0-pro", "gemini-3.0-flash", "gemini-3.0-flash-thinking",
      "gemini-2.0-flash-thinking-exp", "gemini-2.0-pro-exp", "gemini-2.0-flash">>

\* the cache check of _discover_gemini_models
CacheValid_Inclusive(cached, ts, t) == cached # None /\ t - ts <= CACHE_TTL

CacheValid(cached, ts, t) == cached # None /\ t - ts < CACHE_TTL

Discovery(result, hit, wrote, cached, ts) ==
    [result |-> result, hit |-> hit, wrote |-> wrote, cached |-> cached, ts |-> ts]

\* _discover_gemini_models as a function of the globals it reads: what it
\* returns, whether it was served from the cache, and the globals afterwards
discover_gemini_models_NoTTL(cached, ts, t, client, lib) ==
    IF ~client
    THEN Discovery(FallbackNoClient, FALSE, FALSE, cached, ts)
    ELSE IF ValidModels(lib) # <<>>
    THEN Discovery(ValidModels(lib), FALSE, TRUE, ValidModels(lib), t)
    ELSE Discovery(FallbackDiscoveryFailed, FALSE, FALSE, cached, ts)

discover_gemini_models_Extends(cached, ts, t, client, lib) ==
    IF CacheValid(cached, ts, t)
    THEN Discovery(cached, TRUE, FALSE, cached, ts)
    ELSE IF ~client
    THEN Discovery(FallbackNoClient, FALSE, FALSE, cached, ts)
    ELSE IF ValidModels(lib) # <<>>
    THEN Discovery(ValidModels(lib), FALSE, TRUE,
                   (IF cached = None THEN <<>> ELSE cached) \o ValidModels(lib), t)
    ELSE Discovery(FallbackDiscoveryFailed, FALSE, FALSE, cached, ts)

discover_gemini_models(cached, ts, t, client, lib) ==
    IF CacheValid(cached, ts, t)
    THEN Discovery(cached, TRUE, FALSE, cached, ts)
    ELSE IF ~client
    THEN Discovery(FallbackNoClient, FALSE, FALSE, cached, ts)
    ELSE IF ValidModels(lib) # <<>>
    THEN Discovery(ValidModels(lib), FALSE, TRUE, ValidModels(lib), t)
    ELSE Discovery(FallbackDiscoveryFailed, FALSE, FALSE, cached, ts)

\* what awaiting generate_content("test", model="FORCE_MODEL_DISCOVERY_HACK")
\* can produce: a normal return, or an exception whose text does or does not
\* hold "Available models: <items>"; items are the comma-separated pieces
ForceOutcomes ==
    { [kind |-> "return", match |-> FALSE, items |-> <<>>],
      [kind |-> "raise", match |-> FALSE, items |-> <<>>],
      [kind |-> "raise", match |-> TRUE, items |-> <<"unspecified", " ", " Unspecified">>],
      [kind |-> "raise", match |-> TRUE,
       items |-> <<"unspecified", " gemini-3.0-pro", " gemini-4.0-ultra ">>] }

\* models_list and valid_models of force_discover_models
ParsedModels(items) == ValidModels([n \in DOMAIN items |-> StripName(items[n])])

\* one completed call: which route, when, what it returned, and what it
\* did to the cache
Call(op, result, hit, wrote, tsBefore) ==
    [op |-> op, time |-> now, result |-> result, hit |-> hit, wrote |-> wrote,
     tsBefore |-> tsBefore]

Awaiting == {n \in DOMAIN mreq : mreq[n] = "awaiting"}

Started == Len(log) + Cardinality(Awaiting)

modelFrame == <<authVars, chatVars, restVars>>

\* GET /models, GET /v1/models: no suspension point between the cache check
\* and the cache write
list_models ==
    /\ Started < MaxReqs
    /\ LET d == discover_gemini_models(CACHED_MODELS, CACHE_TIMESTAMP, now,
                                       globalClient, libModels)
       IN /\ CACHED_MODELS' = d.cached
          /\ CACHE_TIMESTAMP' = d.ts
          /\ log' = Append(log, Call("list", d.result, d.hit, d.wrote, CACHE_TIMESTAMP))
    /\ UNCHANGED <<now, ticks, libModels, mreq, modelFrame>>

\* GET /models/force_discovery up to the await
ForceStart ==
    /\ Started < MaxReqs
    /\ IF ~globalClient
       THEN /\ log' = Append(log, Call("force", <<"error">>, FALSE, FALSE, CACHE_TIMESTAMP))
            /\ UNCHANGED mreq
       ELSE /\ mreq' = Append(mreq, "awaiting")
            /\ UNCHANGED log
    /\ UNCHANGED <<CACHED_MODELS, CACHE_TIMESTAMP, now, ticks, libModels, modelFrame>>

\* GET /models/force_discovery after the await
ForceFinish(n, out) ==
    /\ n \in Awaiting
    /\ mreq' = [mreq EXCEPT ![n] = "done"]
    /\ LET valid_models == ParsedModels(out.items) IN
       IF out.kind = "raise" /\ out.match /\ valid_models # <<>>
       THEN /\ CACHED_MODELS' = valid_models
            /\ CACHE_TIMESTAMP' = now
            /\ log' = Append(log, Call("force", valid_models, FALSE, TRUE, CACHE_TIMESTAMP))
       ELSE /\ log' = Append(log, Call("force", <<"error">>, FALSE, FALSE, CACHE_TIMESTAMP))
            /\ UNCHANGED <<CACHED_MODELS, CACHE_TIMESTAMP>>
    /\ UNCHANGED <<now, ticks, libModels, modelFrame>>

\* time passes
Tick(d) ==
    /\ ticks < MaxTicks
    /\ now' = now + d
    /\ ticks' = ticks + 1
    /\ UNCHANGED <<CACHED_MODELS, CACHE_TIMESTAMP, libModels, mreq, log, modelFrame>>

InitModels ==
    /\ CACHED_MODELS = None
    /\ CACHE_TIMESTAMP = 0
    /\ now = CACHE_TTL
    /\ ticks = 0
    /\ libModels \in LibraryConstants
    /\ mreq = <<>>
    /\ log = <<>>

NextModels ==
    \/ list_models
    \/ ForceStart
    \/ \E n \in DOMAIN mreq, out \in ForceOutcomes : ForceFinish(n, out)
    \/ \E d \in TickSteps : Tick(d)

\* ------------------------------------------------------------------------
\* Configuration loader (app/config.py)
\* ------------------------------------------------------------------------
\* A line of the file, a section name, an option name and a value are
\* sequences of tokens; the characters the parser looks at (the blank, "=",
\* ":", "[", "]", "#", ";") are tokens of their own.

\* one option of a section; raw: the value is still the list of its lines
Option(key, value) == [key |-> key, value |-> value, raw |-> FALSE]

Section(name, options) == [name |-> name, options |-> options]

\* str.lower on the option names of the model
LowerTable ==
    { <<"User-Agent", "user-agent">>, <<"Accept", "accept">>,
      <<"Accept-Language", "accept-language">>, <<"X-Same-Domain", "x-same-domain">>,
      <<"Sec-Fetch-Dest", "sec-fetch-dest">>, <<"Sec-Fetch-Mode", "sec-fetch-mode">>,
      <<"Sec-Fetch-Site", "sec-fetch-site">>, <<"Sec-Ch-Ua", "sec-ch-ua">>,
      <<"Sec-Ch-Ua-Arch", "sec-ch-ua-arch">>, <<"Sec-Ch-Ua-Bitness", "sec-ch-ua-bitness">>,
      <<"Sec-Ch-Ua-Form-Factors", "sec-ch-ua-form-factors">>,
      <<"Sec-Ch-Ua-Full-Version", "sec-ch-ua-full-version">>,
      <<"Sec-Ch-Ua-Mobile", "sec-ch-ua-mobile">>, <<"Sec-Ch-Ua-Model", "sec-ch-ua-model">>,
      <<"Sec-Ch-Ua-Platform", "sec-ch-ua-platform">>,
      <<"Sec-Ch-Ua-Platform-Version", "sec-ch-ua-platform-version">>,
      <<"Sec-Ch-Ua-Wow64", "sec-ch-ua-wow64">>, <<"X-Browser-Channel", "x-browser-channel">>,
      <<"X-Browser-Year", "x-browser-year">>,
      <<"X-Goog-Ext-525005358-jspb", "x-goog-ext-525005358-jspb">>,
      <<"X-Goog-Ext-73010989-jspb", "x-goog-ext-73010989-jspb">>,
      <<"Origin", "origin">>, <<"Referer", "referer">>,
      <<"API_KEY", "api_key">>, <<"Name", "name">> }

LowerToken(tok) ==
    IF \E p \in LowerTable : p[1] = tok
    THEN (CHOOSE p \in LowerTable : p[1] = tok)[2]
    ELSE tok

\* ConfigParser.optionxform: option names are stored in lower case
optionxform(key) == [n \in DOMAIN key |-> LowerToken(key[n])]

\* "<name>" in config
HasSection(config, name) == \E n \in DOMAIN config : config[n].name = name

\* config[name] = {...} for a section the configuration does not hold
SetSection(config, section) ==
    Append(config,
           Section(section.name,
                   [n \in DOMAIN section.options |->
                       Option(optionxform(section.options[n].key),
                              section.options[n].value)]))

\* the default sections of load_config, as it writes them
DefaultSections ==
    << Section(<<"Browser">>, <<Option(<<"name">>, <<"chrome">>)>>),
       Section(<<"Cookies">>, <<>>),
       Section(<<"AI">>, <<Option(<<"default_model_gemini">>, <<"gemini-3.0-pro">>)>>),
       Section(<<"Proxy">>, <<Option(<<"http_proxy">>, <<>>)>>),
       Section(<<"Auth">>, <<Option(<<"api_key">>, <<>>)>>),
       Section(<<"Logging">>, <<Option(<<"debug">>, <<"false">>)>>),
       Section(<<"CustomHeaders">>,
         << Option(<<"User-Agent">>,
              <<"Mozilla/5.0 (Windows NT 10.0; Win64; x64) AppleWebKit/537.36 (KHTML, like Gecko) Chrome/145.0.0.0 Safari/537.36">>),
            Option(<<"Accept">>, <<"*/*">>),
            Option(<<"Accept-Language">>,
              <<"zh-CN,zh;q", "=", "0.9,en;q", "=", "0.8,en-GB;q", "=", "0.7,en-US;q", "=", "0.6">>),
            Option(<<"X-Same-Domain">>, <<"1">>),
            Option(<<"Sec-Fetch-Dest">>, <<"empty">>),
            Option(<<"Sec-Fetch-Mode">>, <<"cors">>),
            Option(<<"Sec-Fetch-Site">>, <<"same-origin">>),
            Option(<<"Sec-Ch-Ua">>,
              <<"\"Not", ":", "A-Brand\";v", "=", "\"99\", \"Chromium\";v", "=",
                "\"145\", \"Google Chrome\";v", "=", "\"145\"">>),
            Option(<<"Sec-Ch-Ua-Arch">>, <<"\"x86\"">>),
            Option(<<"Sec-Ch-Ua-Bitness">>, <<"\"64\"">>),
            Option(<<"Sec-Ch-Ua-Form-Factors">>, <<"\"Desktop\"">>),
            Option(<<"Sec-Ch-Ua-Full-Version">>, <<"\"145.0.7632.76\"">>),
            Option(<<"Sec-Ch-Ua-Mobile">>, <<"?0">>),
            Option(<<"Sec-Ch-Ua-Model">>, <<"\"\"">>),
            Option(<<"Sec-Ch-Ua-Platform">>, <<"\"Windows\"">>),
            Option(<<"Sec-Ch-Ua-Platform-Version">>, <<"\"12.0.0\"">>),
            Option(<<"Sec-Ch-Ua-Wow64">>, <<"?0">>),
            Option(<<"X-Browser-Channel">>, <<"stable">>),
            Option(<<"X-Browser-Year">>, <<"1969">>),
            Option(<<"X-Goog-Ext-525005358-jspb">>,
              <<"[", "\"37CE75D3-5F5D-4E7E-89AB-EE274C4C61A9\",1", "]">>),
            Option(<<"X-Goog-Ext-73010989-jspb">>, <<"[", "0", "]">>),
            Option(<<"Origin">>, <<"https", ":", "//gemini.google.com">>),
            Option(<<"Referer">>, <<"https", ":", "//gemini.google.com/">>) >>) >>

\* the seven "if <name> not in config: config[<name>] = {...}" of load_config
RECURSIVE SetDefaults(_, _)
SetDefaults(config, n) ==
    IF n > Len(DefaultSections) THEN config
    ELSE SetDefaults(IF HasSection(config, DefaultSections[n].name)
                     THEN config
                     ELSE SetSection(config, DefaultSections[n]),
                     n + 1)

\* ---- config.read: the parser of the file ----
Delimiters == {"=", ":"}

CommentPrefixes == {"#", ";"}

\* index of the first delimiter of a line, 0 without one
DelimiterAt(line) ==
    IF \E n \in DOMAIN line : line[n] \in Delimiters
    THEN CHOOSE n \in DOMAIN line :
            /\ line[n] \in Delimiters
            /\ \A m \in 1..(n - 1) : line[m] \notin Delimiters
    ELSE 0

\* index of the last "]" of a line, 0 without one
HeaderEnd(line) ==
    IF \E n \in DOMAIN line : line[n] = "]"
    THEN CHOOSE n \in DOMAIN line :
            line[n] = "]" /\ \A m \in (n + 1)..Len(line) : line[m] # "]"
    ELSE 0

\* SECTCRE matches: "[", a non-empty name, "]"
IsHeader(line) == line # <<>> /\ Head(line) = "[" /\ HeaderEnd(line) >= 3

\* optval.strip()
OptionValue_NoStrip(line, d) == SubSeq(line, d + 1, Len(line))

OptionValue(line, d) == Strip(SubSeq(line, d + 1, Len(line)))

\* optionxform(optname.rstrip())
OptionName(line, d) == optionxform(RStrip(SubSeq(line, 1, d - 1)))

\* the parser before the first line: no section, no error
ParseStart == [sections |-> <<>>, cursect |-> 0, fatal |-> "none", bogus |-> 0]

HasOption(section, key) == \E n \in DOMAIN section.options : section.options[n].key = key

\* one line of RawConfigParser._read (strict=True)
ParseLine(st, raw) ==
    LET line == Strip(raw)
        d == DelimiterAt(line) IN
    IF st.fatal # "none" THEN st
    ELSE IF line = <<>> \/ Head(line) \in CommentPrefixes THEN st
    ELSE IF IsHeader(line)
    THEN LET name == SubSeq(line, 2, HeaderEnd(line) - 1) IN
         IF HasSection(st.sections, name)
         THEN [st EXCEPT !.fatal = "DuplicateSectionError"]
         ELSE [st EXCEPT !.sections = Append(st.sections, Section(name, <<>>)),
                         !.cursect = Len(st.sections) + 1]
    ELSE IF st.cursect = 0
    THEN [st EXCEPT !.fatal = "MissingSectionHeaderError"]
    ELSE IF d = 0
    THEN [st EXCEPT !.bogus = st.bogus + 1]
    ELSE LET key == OptionName(line, d)
             opt == [key |-> key, value |-> OptionValue(line, d), raw |-> TRUE] IN
         IF HasOption(st.sections[st.cursect], key)
         THEN [st EXCEPT !.fatal = "DuplicateOptionError"]
         ELSE [st EXCEPT !.sections[st.cursect].options = Append(@, opt),
                         !.bogus = IF key = <<>> THEN st.bogus + 1 ELSE st.bogus]

RECURSIVE ParseLines(_, _)
ParseLines(st, lines) ==
    IF lines = <<>> THEN st
    ELSE LET next == ParseLine(st, Head(lines)) IN
         \* an exception ends the loop over the lines
         IF next.fatal # "none" THEN next ELSE ParseLines(next, Tail(lines))

\* _join_multiline_values: every value becomes a string
JoinValues(sections) ==
    [n \in DOMAIN sections |->
        [sections[n] EXCEPT !.options =
            [m \in DOMAIN sections[n].options |->
                [sections[n].options[m] EXCEPT !.raw = FALSE]]]]

ReadResult(config, error) == [config |-> config, error |-> error]

\* config.read(config_file, encoding="utf-8"): a file that cannot be opened
\* is skipped silently; an error that stops the parser leaves what was read
\* so far, joined or not (joinOnError) with the version of the parser; lines
\* without a delimiter are reported once the whole file was read
ConfigRead(file, joinOnError) ==
    LET st == ParseLines(ParseStart, file.lines)
        fatal == IF st.fatal # "none" THEN st.fatal
                 ELSE IF file.openRead = "undecodable" THEN "UnicodeDecodeError"
                 ELSE "none" IN
    IF file.openRead = "oserror" THEN ReadResult(<<>>, "none")
    ELSE IF fatal # "none"
    THEN ReadResult(IF joinOnError THEN JoinValues(st.sections) ELSE st.sections, fatal)
    ELSE ReadResult(JoinValues(st.sections), IF st.bogus > 0 THEN "ParsingError" ELSE "none")

\* ---- config.write: the file a configuration is written as ----
\* str(value): a value that is still a list is written as the list's repr
ValueText(opt) == IF opt.raw THEN <<"['">> \o opt.value \o <<"']">> ELSE opt.value

OptionLine(opt) == opt.key \o <<" ", "=", " ">> \o ValueText(opt)

SectionLines(section) ==
    <<(<<"[">> \o section.name \o <<"]">>)>>
    \o [m \in DOMAIN section.options |-> OptionLine(section.options[m])]
    \o << <<>> >>

RECURSIVE ConfigWrite(_)
ConfigWrite(config) ==
    IF config = <<>> THEN <<>>
    ELSE SectionLines(Head(config)) \o ConfigWrite(Tail(config))

\* ---- the file ----
\* openRead: "ok", "oserror" (open() fails: missing, permission denied, a
\* directory) or "undecodable" (not UTF-8 after its lines); openWrite: the
\* file can be opened for writing
File(exists, openRead, openWrite, lines) ==
    [exists |-> exists, openRead |-> openRead, openWrite |-> openWrite, lines |-> lines]

MissingFile == File(FALSE, "oserror", TRUE, <<>>)

\* the files load_config may find
ConfigFiles ==
    { MissingFile,
      \* missing, in a directory that cannot be written
      File(FALSE, "oserror", FALSE, <<>>),
      \* a key set by the user, padded and in upper case
      File(TRUE, "ok", TRUE,
           << <<"[", "Auth", "]">>, <<"API_KEY", "=", " ", "k", " ">> >>),
      \* the same file, read-only
      File(TRUE, "ok", FALSE,
           << <<"[", "Auth", "]">>, <<"api_key", " ", "=", " ", "k">> >>),
      \* the same file, write-only
      File(TRUE, "oserror", TRUE,
           << <<"[", "Auth", "]">>, <<"api_key", " ", "=", " ", "k">> >>),
      \* a directory in the place of the file
      File(TRUE, "oserror", FALSE, <<>>),
      \* a line without a delimiter
      File(TRUE, "ok", TRUE,
           << <<"#", " ", "settings">>, <<"[", "Browser", "]">>,
              <<"Name", ":", "edge">>, <<"junk">> >>),
      \* an option before the first section
      File(TRUE, "ok", TRUE,
           << <<"name", " ", "=", " ", "edge">>, <<"[", "Auth", "]">> >>),
      \* a section twice
      File(TRUE, "ok", TRUE,
           << <<"[", "Auth", "]">>, <<"api_key", " ", "=", " ", "k">>,
              <<"[", "Auth", "]">> >>),
      \* bytes that are not UTF-8 after the first section
      File(TRUE, "undecodable", TRUE,
           << <<"[", "Proxy", "]">>, <<"http_proxy", " ", "=", " ", "p">> >>) }

\* what the disk does when the file is written
DiskOutcomes == {"ok", "full"}

\* one entry of the log
LogEntry(level, msg, exc) == [level |-> level, msg |-> msg, exc |-> exc]

\* save_config: the file afterwards and what was logged
SaveResult(file, logged, error) == [file |-> file, logged |-> logged, error |-> error]

save_config(config, file, disk) ==
    IF ~file.openWrite
    THEN SaveResult(file,
                    <<LogEntry("error", "Error writing to config file: ", "OSError")>>,
                    "OSError")
    ELSE LET keptMode == IF file.exists /\ file.openRead = "oserror"
                         THEN "oserror" ELSE "ok" IN
         IF disk = "full"
         THEN \* open(..., "w") has emptied the file
              SaveResult(File(TRUE, keptMode, TRUE, <<>>),
                         <<LogEntry("error", "Error writing to config file: ", "OSError")>>,
                         "OSError")
         ELSE SaveResult(File(TRUE, keptMode, TRUE, ConfigWrite(config)), <<>>, "none")

\* load_config as a function of the file: the configuration returned, the
\* file afterwards, what was logged
Load(before, after, config, logged, readError, writeError) ==
    [before |-> before, after |-> after, config |-> config, logged |-> logged,
     readError |-> readError, writeError |-> writeError]

load_config_of(file, joinOnError, disk) ==
    LET r == ConfigRead(file, joinOnError)
        readLog == IF r.error = "none" THEN <<>>
                   ELSE <<LogEntry("error", "Error reading config file: ", r.error)>>
        config == SetDefaults(r.config, 1)
        s == save_config(config, file, disk) IN
    Load(file, s.file, config, readLog \o s.logged, r.error, s.error)

configFrame == <<authVars, chatVars, modelVars, cookieVars, netVars, promptVars, readerVars>>

\* one call of load_config("config.conf")
load_config(joinOnError, disk) ==
    /\ Len(loads) < MaxLoads
    /\ LET l == load_config_of(configFile, joinOnError, disk) IN
       /\ loads' = Append(loads, l)
       /\ configFile' = l.after
    /\ UNCHANGED configFrame

\* between two loads the user replaces, protects or deletes the file
EditConfigFile(file) ==
    /\ Len(loads) < MaxLoads
    /\ file # configFile
    /\ configFile' = file
    /\ UNCHANGED <<loads, configFrame>>

InitConfig ==
    /\ configFile \in ConfigFiles
    /\ loads = <<>>

NextConfig ==
    \/ \E joinOnError \in BOOLEAN, disk \in DiskOutcomes : load_config(joinOnError, disk)
    \/ \E file \in ConfigFiles : EditConfigFile(file)

\* ------------------------------------------------------------------------
\* Cookie decryption (app/utils/browser.py, _decrypt_chrome_cookie_value)
\* ------------------------------------------------------------------------
\* Bytes are the numbers 0..255; a bytes object is a sequence of bytes.

RECURSIVE Sum(_)
Sum(s) == IF s = <<>> THEN 0 ELSE Head(s) + Sum(Tail(s))

\* a Python slice bound: negative bounds count from the end, all are clamped
PyIndex(n, len) ==
    LET m == IF n < 0 THEN n + len ELSE n IN
    IF m < 0 THEN 0 ELSE IF m > len THEN len ELSE m

\* s[lo:hi] of Python, lo and hi counted from 0
PySlice(s, lo, hi) == SubSeq(s, PyIndex(lo, Len(s)) + 1, PyIndex(hi, Len(s)))

\* the authenticated cipher (AES.new(key, AES.MODE_GCM, nonce=nonce)): a
\* keystream of the key and the nonce, and a 16-byte tag of the key, the
\* nonce and the ciphertext
KeyStream(key, nonce, n) == (key + Sum(nonce) + n) % 256

GcmEncrypt(key, nonce, plaintext) ==
    [n \in DOMAIN plaintext |-> (plaintext[n] + KeyStream(key, nonce, n)) % 256]

GcmDecrypt(key, nonce, ciphertext) ==
    [n \in DOMAIN ciphertext |-> (ciphertext[n] + 256 - KeyStream(key, nonce, n)) % 256]

GcmTag(key, nonce, ciphertext) ==
    [n \in 1..16 |-> (key + Sum(nonce) + Sum(ciphertext) + 7 * n) % 256]

\* the keys AES accepts; any other key makes AES.new raise ValueError
ValidKeys == {17, 42}

\* the outcome of a step: the exception it raised ("none": it returned) and
\* the bytes it returned
Outcome(exc, bytes) == [exc |-> exc, bytes |-> bytes]

\* cipher.decrypt_and_verify(ciphertext, tag)
decrypt_and_verify(key, nonce, ciphertext, tag) ==
    IF key \notin ValidKeys THEN Outcome("ValueError", <<>>)
    ELSE IF tag # GcmTag(key, nonce, ciphertext) THEN Outcome("ValueError", <<>>)
    ELSE Outcome("none", GcmDecrypt(key, nonce, ciphertext))

\* bytes.decode("utf-8") on the bytes of the model: a byte below 128 is the
\* character of that code, a lone byte from 128 on is not UTF-8
Utf8Decode(bytes) ==
    IF \E n \in DOMAIN bytes : bytes[n] >= 128
    THEN Outcome("UnicodeDecodeError", <<>>)
    ELSE Outcome("none", bytes)

\* the exception classes of the routine that derive from ValueError
ValueErrors == {"ValueError", "UnicodeDecodeError", "JSONDecodeError", "binascii.Error"}

\* except ValueError as aes_error
CaughtByInner(exc) == exc \in ValueErrors

\* except Exception as e
CaughtByOuter_ValueErrorOnly(exc) == exc \in ValueErrors

CaughtByOuter(exc) == exc \in ValueErrors \cup {"TypeError", "pywintypes.error", "OSError"}

\* len(encrypted_value) < 31
MinLength == 31

\* version.startswith(b"v1") or version.startswith(b"v2")
IsModern(version) ==
    Len(version) >= 2 /\ version[1] = 118 /\ version[2] \in {49, 50}

\* the str the routine returns, or None
Absent == [present |-> FALSE, text |-> <<>>]

Present(text) == [present |-> TRUE, text |-> text]

\* what a call produced: the value returned, the exception that left the
\* routine ("none": it returned), the steps taken, and the split made
Decrypted(result, left, steps, parts) ==
    [result |-> result, raised |-> left, steps |-> steps, parts |-> parts]

NoParts == [version |-> <<>>, nonce |-> <<>>, ciphertext |-> <<>>, tag |-> <<>>]

\* leaving the routine on an exception raised outside the inner handlers
Leave(exc, steps, parts) ==
    IF CaughtByOuter(exc) THEN Decrypted(Absent, "none", steps, parts)
    ELSE Decrypted(Absent, exc, steps, parts)

\* win32crypt.CryptUnprotectData(encrypted_value, ...)[1].decode("utf-8")
\* under "except Exception: return None"
DpapiUnwrap(dpapi, steps, parts) ==
    IF dpapi.exc # "none" THEN Decrypted(Absent, "none", steps, parts)
    ELSE LET text == Utf8Decode(dpapi.bytes) IN
         IF text.exc # "none" THEN Decrypted(Absent, "none", steps, parts)
         ELSE Decrypted(Present(text.bytes), "none", steps, parts)

\* the nonce slice of the routine, one byte short
SplitValue_ShortNonce(encrypted_value) ==
    [version |-> PySlice(encrypted_value, 0, 3),
     nonce |-> PySlice(encrypted_value, 3, 14),
     ciphertext |-> PySlice(encrypted_value, 15, -16),
     tag |-> PySlice(encrypted_value, -16, Len(encrypted_value))]

\* version, nonce, ciphertext and tag of an encrypted value
SplitValue(encrypted_value) ==
    [version |-> PySlice(encrypted_value, 0, 3),
     nonce |-> PySlice(encrypted_value, 3, 15),
     ciphertext |-> PySlice(encrypted_value, 15, -16),
     tag |-> PySlice(encrypted_value, -16, Len(encrypted_value))]

\* _decrypt_chrome_cookie_value(encrypted_value, local_state_path) as a
\* function of the value and of what the platform, the Local State file and
\* the OS key store answer
decrypt_chrome_cookie_value(inp) ==
    LET parts == SplitValue(inp.value)
        key == inp.keyStore.bytes
        aes == decrypt_and_verify(IF key = <<>> THEN 0 ELSE key[1],
                                  parts.nonce, parts.ciphertext, parts.tag)
        text == Utf8Decode(aes.bytes)
        aesExc == IF aes.exc # "none" THEN aes.exc ELSE text.exc IN
    IF inp.platform # "windows+crypto" THEN Decrypted(Absent, "none", <<>>, NoParts)
    ELSE IF inp.local_state = "missing"
    THEN Decrypted(Absent, "none", <<"local_state">>, NoParts)
    ELSE IF inp.local_state = "badjson"
    THEN Leave("JSONDecodeError", <<"local_state">>, NoParts)
    ELSE IF inp.local_state = "nokey"
    THEN Decrypted(Absent, "none", <<"local_state">>, NoParts)
    ELSE IF inp.local_state = "badbase64"
    THEN Leave("binascii.Error", <<"local_state">>, NoParts)
    ELSE IF inp.keyStore.exc # "none"
    THEN Leave(inp.keyStore.exc, <<"local_state", "key">>, NoParts)
    ELSE IF Len(inp.value) < MinLength
    THEN Decrypted(Absent, "none", <<"local_state", "key">>, NoParts)
    ELSE IF ~IsModern(parts.version)
    THEN DpapiUnwrap(inp.dpapi, <<"local_state", "key", "dpapi_legacy">>, NoParts)
    ELSE IF aesExc = "none"
    THEN Decrypted(Present(text.bytes), "none", <<"local_state", "key", "aes">>, parts)
    ELSE IF CaughtByInner(aesExc)
    THEN DpapiUnwrap(inp.dpapi, <<"local_state", "key", "aes", "dpapi_fallback">>, parts)
    ELSE Leave(aesExc, <<"local_state", "key", "aes">>, parts)

\* ---- the inputs of the model ----
\* the version prefixes: b"v10", b"v20", and the first bytes of a legacy blob
Prefixes == {<<118, 49, 48>>, <<118, 50, 48>>, <<1, 0, 0>>}

TheNonce == <<1, 2, 3, 4, 5, 6, 7, 8, 9, 10, 11, 12>>

\* the key the synthetic values are built with
TheKey == 17

\* the bytes of the plaintexts: "a", and a byte that is not UTF-8
PlainBytes == {97, 255}

Plaintexts == SeqsUpTo(PlainBytes, MaxPlainLen)

\* prefix + nonce + ciphertext + tag for a key and a plaintext
BuildValue(prefix, key, nonce, plaintext) ==
    prefix \o nonce \o GcmEncrypt(key, nonce, plaintext)
           \o GcmTag(key, nonce, GcmEncrypt(key, nonce, plaintext))

\* byte number pos (from 1) altered; 0: no byte altered
Tamper(value, pos) ==
    IF pos \in DOMAIN value
    THEN [value EXCEPT ![pos] = (value[pos] + 1) % 256]
    ELSE value

\* the last cut bytes dropped
Truncate(value, cut) == SubSeq(value, 1, Len(value) - cut)

\* the answers of the OS key store for the wrapped key: the key the values
\* were built with, another key, a key AES does not accept, or an error
KeyStoreOutcomes ==
    { Outcome("none", <<TheKey>>), Outcome("none", <<42>>), Outcome("none", <<>>),
      Outcome("pywintypes.error", <<>>) }

\* the answers of the OS key store for a whole value
DpapiOutcomes ==
    { Outcome("pywintypes.error", <<>>), Outcome("none", <<108>>),
      Outcome("none", <<255>>) }

\* one input: how the value was made is kept with it
DecryptInput(pf, ls, ks, dp, prefix, pt, pos, cut) ==
    [platform |-> pf, local_state |-> ls, keyStore |-> ks, dpapi |-> dp,
     prefix |-> prefix, plaintext |-> pt, pos |-> pos, cut |-> cut,
     value |-> Truncate(Tamper(BuildValue(prefix, TheKey, TheNonce, pt), pos), cut)]

Platforms == {"windows+crypto", "windows", "other"}

LocalStates == {"ok", "missing", "badjson", "nokey", "badbase64"}

\* the values with any one byte altered or the last byte dropped, under the
\* key they were built with; the untouched values under every answer of the
\* key store, on every platform and with every state of the key file
DecryptInputs ==
    { DecryptInput("windows+crypto", "ok", Outcome("none", <<TheKey>>), dp,
                   prefix, pt, pos, cut) :
        dp \in DpapiOutcomes, prefix \in Prefixes, pt \in Plaintexts,
        pos \in 0..(3 + 12 + MaxPlainLen + 16), cut \in {0, 1} }
    \cup
    { DecryptInput(pf, ls, ks, dp, prefix, pt, 0, 0) :
        pf \in Platforms, ls \in LocalStates, ks \in KeyStoreOutcomes,
        dp \in DpapiOutcomes, prefix \in Prefixes, pt \in Plaintexts }

\* no call, a call about to be made on inp, the call made
NoDecrypt == [stage |-> "idle"]

NoExtraction == [stage |-> "idle"]

cookieFrame == <<authVars, chatVars, modelVars, configVars, netVars, promptVars, readerVars>>

\* one call of _decrypt_chrome_cookie_value
DecryptCookieValue ==
    /\ decrypted.stage = "pending"
    /\ decrypted' = [stage |-> "called", inp |-> decrypted.inp,
                     out |-> decrypt_chrome_cookie_value(decrypted.inp)]
    /\ UNCHANGED <<extraction, cookieFrame>>

\* ------------------------------------------------------------------------
\* Cookie extraction (get_cookies_with_fallback, get_cookie_from_browser)
\* ------------------------------------------------------------------------
\* a cookie object: hasAttrs: it has name, value and domain; a domain is a
\* sequence of labels, NoDomain: the attribute is None
NoDomain == <<"None">>

Cookie(name, value, domain) ==
    [name |-> name, value |-> value, domain |-> domain, hasAttrs |-> TRUE]

GoogleDomain == <<".", "google", ".com">>

LookalikeDomain == <<"not", "google", ".example">>

OtherDomain == <<"example", ".com">>

\* "google" in cookie.domain
InDomain(label, domain) == \E n \in DOMAIN domain : domain[n] = label

\* the values a cookie may carry
CookieValues == {<<>>, <<" ">>, <<"v">>, <<" ", "w">>}

\* what a strategy may find
CookieJars ==
    { <<Cookie("__Secure-1PSID", a, GoogleDomain),
        Cookie("__Secure-1PSIDTS", b, GoogleDomain)>> : a, b \in CookieValues }
    \cup
    { <<Cookie("__Secure-1PSID", <<"v">>, GoogleDomain)>>,
      <<Cookie("__Secure-1PSIDTS", <<"v">>, GoogleDomain)>>,
      <<Cookie("NID", <<"v">>, GoogleDomain)>>,
      <<Cookie("__Secure-1PSID", <<"v">>, OtherDomain),
        Cookie("__Secure-1PSIDTS", <<"v">>, GoogleDomain)>>,
      <<Cookie("__Secure-1PSID", <<"v">>, LookalikeDomain),
        Cookie("__Secure-1PSIDTS", <<"v">>, LookalikeDomain)>>,
      <<Cookie("__Secure-1PSID", <<"v">>, GoogleDomain),
        Cookie("__Secure-1PSIDTS", <<"v">>, GoogleDomain),
        Cookie("__Secure-1PSID", <<>>, GoogleDomain)>>,
      <<Cookie("__Secure-1PSID", <<"v">>, GoogleDomain),
        Cookie("__Secure-1PSIDTS", <<"v">>, NoDomain)>>,
      <<[Cookie("__Secure-1PSID", <<"v">>, GoogleDomain) EXCEPT !.hasAttrs = FALSE],
        Cookie("__Secure-1PSIDTS", <<"v">>, GoogleDomain)>> }

\* what a strategy answers: None, or a list of cookies
Found(cookies) == [kind |-> "list", cookies |-> cookies]

NotFound == [kind |-> "none", cookies |-> <<>>]

\* "if cookies:"
Truthy(found) == found.kind = "list" /\ found.cookies # <<>>

\* the answers of the strategies in the model: a failure, an empty list, or
\* one of a few jars
StrategyAnswers ==
    {NotFound, Found(<<>>)}
    \cup {Found(jar) : jar \in
            { <<Cookie("__Secure-1PSID", <<"v">>, GoogleDomain),
                Cookie("__Secure-1PSIDTS", <<"v">>, GoogleDomain)>>,
              <<Cookie("__Secure-1PSID", <<" ", "w">>, GoogleDomain),
                Cookie("__Secure-1PSIDTS", <<" ", "w">>, GoogleDomain)>>,
              <<Cookie("NID", <<"v">>, GoogleDomain)>> }}

ChromiumBrowsers == {"chrome", "brave", "edge"}

Browsers == {"firefox", "chrome", "safari"}

Profiles == {"Default", "Profile 1"}

\* what get_cookies_with_fallback meets: the platform, whether the cookie
\* database of the browser was located, whether locating it raised, and the
\* answer each strategy would give
Environments ==
    [is_windows : BOOLEAN, browser : Browsers, profile : Profiles,
     dbFound : BOOLEAN, pathsRaise : BOOLEAN,
     library : StrategyAnswers, direct : StrategyAnswers, devtools : StrategyAnswers]

\* the result of get_cookies_with_fallback: the cookies returned, the
\* strategies attempted in order, and whether an exception left it
Fallback(found, attempts, left) ==
    [found |-> found, attempts |-> attempts, raised |-> left]

\* Method 2 and DevTools, after the library lookup was of no use
AfterLibrary(env, attempts) ==
    IF ~env.is_windows THEN Fallback(NotFound, attempts, FALSE)
    ELSE IF env.pathsRaise THEN Fallback(NotFound, attempts, TRUE)
    ELSE IF env.browser = "firefox" /\ env.dbFound
    THEN IF Truthy(env.direct)
         THEN Fallback(env.direct, attempts \o <<"direct">>, FALSE)
         ELSE Fallback(NotFound, attempts \o <<"direct">>, FALSE)
    ELSE IF env.browser \in ChromiumBrowsers
    THEN LET tried == IF env.dbFound THEN attempts \o <<"direct">> ELSE attempts IN
         IF env.dbFound /\ Truthy(env.direct)
         THEN Fallback(env.direct, tried, FALSE)
         ELSE IF Truthy(env.devtools)
         THEN Fallback(env.devtools, tried \o <<"devtools">>, FALSE)
         ELSE Fallback(NotFound, tried \o <<"devtools">>, FALSE)
    ELSE Fallback(NotFound, attempts, FALSE)

\* the same, the DevTools protocol asked before the database is read
get_cookies_with_fallback_DevToolsFirst(env) ==
    IF env.profile = "Default" /\ Truthy(env.library)
    THEN Fallback(env.library, <<"library">>, FALSE)
    ELSE LET attempts == IF env.profile = "Default" THEN <<"library">> ELSE <<>> IN
         IF env.is_windows /\ ~env.pathsRaise /\ env.browser \in ChromiumBrowsers
            /\ Truthy(env.devtools)
         THEN Fallback(env.devtools, attempts \o <<"devtools">>, FALSE)
         ELSE AfterLibrary(env, attempts)

get_cookies_with_fallback(env) ==
    IF env.profile = "Default" /\ Truthy(env.library)
    THEN Fallback(env.library, <<"library">>, FALSE)
    ELSE AfterLibrary(env, IF env.profile = "Default" THEN <<"library">> ELSE <<>>)

\* the loop over the cookies: the last cookie of each name on a domain
\* holding "google" wins; error: "google" in None raised
Scan(psid, psidts, error) == [psid |-> psid, psidts |-> psidts, error |-> error]

\* a cookie value found, or None
NoValue == [found |-> FALSE, value |-> <<>>]

Value(v) == [found |-> TRUE, value |-> v]

RECURSIVE ScanCookies(_, _)
ScanCookies(cookies, acc) ==
    IF cookies = <<>> \/ acc.error THEN acc
    ELSE LET cookie == Head(cookies)
             rest == Tail(cookies) IN
         IF ~cookie.hasAttrs THEN ScanCookies(rest, acc)
         ELSE IF cookie.name \in {"__Secure-1PSID", "__Secure-1PSIDTS"}
                 /\ cookie.domain = NoDomain
         THEN [acc EXCEPT !.error = TRUE]
         ELSE IF cookie.name = "__Secure-1PSID" /\ InDomain("google", cookie.domain)
         THEN ScanCookies(rest, [acc EXCEPT !.psid = Value(cookie.value)])
         ELSE IF cookie.name = "__Secure-1PSIDTS" /\ InDomain("google", cookie.domain)
         THEN ScanCookies(rest, [acc EXCEPT !.psidts = Value(cookie.value)])
         ELSE ScanCookies(rest, acc)

\* the tuple get_cookie_from_browser returns, or None
NoPair == [present |-> FALSE, secure_1psid |-> <<>>, secure_1psidts |-> <<>>]

Pair(a, b) == [present |-> TRUE, secure_1psid |-> a, secure_1psidts |-> b]

\* the result of the call: the pair or None, or the exception raised
Extracted(pair, left) == [pair |-> pair, raised |-> left]

\* the last part of get_cookie_from_browser, without the test on the
\* trimmed values
ProcessCookies_NoBlankCheck(service, cookies) ==
    LET scan == ScanCookies(cookies, Scan(NoValue, NoValue, FALSE)) IN
    IF service # "gemini" THEN NoPair
    ELSE IF scan.error THEN NoPair
    ELSE IF scan.psid.found /\ scan.psid.value # <<>>
            /\ scan.psidts.found /\ scan.psidts.value # <<>>
    THEN Pair(scan.psid.value, scan.psidts.value)
    ELSE NoPair

\* "Process cookies for the requested service"
ProcessCookies(service, cookies) ==
    LET scan == ScanCookies(cookies, Scan(NoValue, NoValue, FALSE)) IN
    IF service # "gemini" THEN NoPair
    ELSE IF scan.error THEN NoPair
    ELSE IF scan.psid.found /\ scan.psid.value # <<>>
            /\ scan.psidts.found /\ scan.psidts.value # <<>>
    THEN IF Len(Strip(scan.psid.value)) = 0 \/ Len(Strip(scan.psidts.value)) = 0
         THEN NoPair
         ELSE Pair(scan.psid.value, scan.psidts.value)
    ELSE NoPair

\* get_cookie_from_browser(service); configOk: the [Browser] options of
\* CONFIG can be read (they are read before the try block)
get_cookie_from_browser(service, env, configOk) ==
    LET fb == get_cookies_with_fallback(env) IN
    IF ~configOk THEN Extracted(NoPair, TRUE)
    ELSE IF fb.raised \/ ~Truthy(fb.found) THEN Extracted(NoPair, FALSE)
    ELSE Extracted(ProcessCookies(service, fb.found.cookies), FALSE)

Services == {"gemini", "other"}

\* the environment in which only the library answers, with one of the jars
LibraryOnly(jar) ==
    [is_windows |-> FALSE, browser |-> "firefox", profile |-> "Default",
     dbFound |-> FALSE, pathsRaise |-> FALSE,
     library |-> Found(jar), direct |-> NotFound, devtools |-> NotFound]

ExtractInput(service, env, configOk) ==
    [service |-> service, env |-> env, configOk |-> configOk]

\* every environment for the service of the process; every jar, every
\* service and an unreadable configuration where only the library answers
ExtractInputs ==
    { ExtractInput("gemini", env, TRUE) : env \in Environments }
    \cup
    { ExtractInput(service, LibraryOnly(jar), configOk) :
        service \in Services, jar \in CookieJars, configOk \in BOOLEAN }

\* one call of get_cookie_from_browser
ExtractCookies ==
    /\ extraction.stage = "pending"
    /\ LET inp == extraction.inp IN
       extraction' = [stage |-> "called", inp |-> inp,
                      fallback |-> get_cookies_with_fallback(inp.env),
                      out |-> get_cookie_from_browser(inp.service, inp.env, inp.configOk)]
    /\ UNCHANGED <<decrypted, cookieFrame>>

\* one call is about to be made, on any of the inputs
InitCookies ==
    \/ /\ decrypted \in {[stage |-> "pending", inp |-> inp] : inp \in DecryptInputs}
       /\ extraction = NoExtraction
    \/ /\ decrypted = NoDecrypt
       /\ extraction \in {[stage |-> "pending", inp |-> inp] : inp \in ExtractInputs}

NextCookies ==
    \/ DecryptCookieValue
    \/ ExtractCookies

\* ------------------------------------------------------------------------
\* The HTTP clients of the process (models/gemini.py, app/utils/browser.py)
\* ------------------------------------------------------------------------
\* httpClients lists every client instance created so far; a request of
\* netLog names the client it went through by its index in httpClients.

\* self.client.client: the httpx client of the Gemini library's client
ApiClient == [kind |-> "api", open |-> TRUE, req |-> 0]

\* httpx.AsyncClient(proxy=..., follow_redirects=True, cookies=cookies) as
\* dl_client, for the download that follows request req
dl_client_Shared(req) == [kind |-> "api", open |-> TRUE, req |-> req]

dl_client(req) == [kind |-> "download", open |-> TRUE, req |-> req]

\* the client httpx.get makes for one request and closes
OneShotClient == [kind |-> "oneshot", open |-> FALSE, req |-> 0]

\* one network request: what was asked, through which client, how it ended
NetRequest(op, client, outcome) == [op |-> op, client |-> client, outcome |-> outcome]

\* the requests made through the library's client
ApiOps == {"generate_content", "StreamGenerate"}

PostOutcomes == {"raise", "non200", "nourl", "url"}

DownloadOutcomes == {"raise", "non200", "ok"}

OpenClients == {c \in DOMAIN httpClients : httpClients[c].open}

\* the requests that went through client c
RequestsOf(c) == {n \in DOMAIN netLog : netLog[n].client = c}

netFrame == <<authVars, chatVars, modelVars, configVars, cookieVars, promptVars, readerVars>>

\* await self.client.generate_content(...): a request through the library
generate_content_request(outcome) ==
    /\ globalClient
    /\ Len(netLog) < MaxNet
    /\ netLog' = Append(netLog, NetRequest("generate_content", 1, outcome))
    /\ UNCHANGED <<httpClients, netFrame>>

\* generate_image: await self.client.client.post(url, ...)
image_post(outcome) ==
    /\ globalClient
    /\ Len(netLog) < MaxNet
    /\ netLog' = Append(netLog, NetRequest("StreamGenerate", 1, outcome))
    /\ UNCHANGED <<httpClients, netFrame>>

\* generate_image: "async with httpx.AsyncClient(...) as dl_client" is
\* entered for a post that returned an image url
download_open(req) ==
    /\ req \in DOMAIN netLog
    /\ netLog[req].op = "StreamGenerate" /\ netLog[req].outcome = "url"
    /\ \A c \in DOMAIN httpClients : httpClients[c].req # req
    /\ httpClients' = Append(httpClients, dl_client(req))
    /\ UNCHANGED <<netLog, netFrame>>

\* generate_image: await dl_client.get(image_url, headers=headers)
download_get(c, outcome) ==
    /\ c \in OpenClients
    /\ httpClients[c].req # 0
    /\ RequestsOf(c) = {}
    /\ Len(netLog) < MaxNet
    /\ netLog' = Append(netLog, NetRequest("image_download", c, outcome))
    /\ UNCHANGED <<httpClients, netFrame>>

\* generate_image: the "async with" block is left
download_close(c) ==
    /\ c \in OpenClients
    /\ httpClients[c].req # 0
    /\ RequestsOf(c) # {}
    /\ httpClients' = [httpClients EXCEPT ![c].open = FALSE]
    /\ UNCHANGED <<netLog, netFrame>>

\* _get_chromium_cookies_via_devtools: httpx.get(".../json/version")
devtools_probe(outcome) ==
    /\ Len(netLog) < MaxNet
    /\ httpClients' = Append(httpClients, OneShotClient)
    /\ netLog' = Append(netLog, NetRequest("devtools_probe", Len(httpClients) + 1, outcome))
    /\ UNCHANGED netFrame

InitNet ==
    /\ httpClients = IF globalClient THEN <<ApiClient>> ELSE <<>>
    /\ netLog = <<>>

NextNet ==
    \/ \E outcome \in {"ok", "raise"} : generate_content_request(outcome)
    \/ \E outcome \in PostOutcomes : image_post(outcome)
    \/ \E req \in DOMAIN netLog : download_open(req)
    \/ \E c \in DOMAIN httpClients, outcome \in DownloadOutcomes : download_get(c, outcome)
    \/ \E c \in DOMAIN httpClients : download_close(c)
    \/ \E outcome \in {"ok", "raise"} : devtools_probe(outcome)

\* ------------------------------------------------------------------------
\* build_context_prompt called on its own (app/endpoints/chat.py)
\* ------------------------------------------------------------------------
PromptParts ==
    { TextPart(<<"a">>), TextPart(<<"b">>), GoodImage, BadPaddingImage,
      NoCommaImage, RemoteImage, OtherPart }

\* msg["content"]: a str or a list of parts
PromptMessages ==
    { TextMessage(r, t) : r \in Roles, t \in {<<>>, <<"a">>} }
    \cup { ListMessage(r, ps) : r \in Roles, ps \in SeqsUpTo(PromptParts, MaxParts) }

PromptInputs == SeqsUpTo(PromptMessages, MaxMsgs)

NoBuild == [stage |-> "idle"]

promptFrame ==
    <<authVars, chatVars, modelVars, configVars, cookieVars, netVars, readerVars>>

\* one call of build_context_prompt
BuildPrompt ==
    /\ built.stage = "pending"
    /\ built' = [stage |-> "called", messages |-> built.messages,
                 out |-> build_context_prompt(built.messages)]
    /\ UNCHANGED promptFrame

InitPrompt == built \in {[stage |-> "pending", messages |-> m] : m \in PromptInputs}

NextPrompt == BuildPrompt

\* ------------------------------------------------------------------------
\* _get_chromium_cookies_via_devtools (app/utils/browser.py)
\* ------------------------------------------------------------------------
\* for _ in range(40)
PollLimit == 40

\* what the function finds before it launches the browser
DevtoolsEnvs ==
    [is_windows : BOOLEAN, HAS_WEBSOCKET : BOOLEAN, executable_path : BOOLEAN,
     user_data_dir : BOOLEAN, dir_exists : BOOLEAN, popen : {"ok", "raise"}]

\* httpx.get(".../json/version"): raises, answers another status, answers
\* 200 without a webSocketDebuggerUrl, answers 200 with one
PollOutcomes == {"raise", "non200", "no_url", "url"}

\* a reply to send_command: the cookies asked for, none, a reply to another
\* message id, or ws.send / ws.recv raising
ReplyOutcomes == {"cookies", "empty", "other_id", "raise"}

CallOutcomes == {"ok", "raise"}

NoDevtools ==
    [pc |-> "idle", polls |-> 0, ws_url |-> FALSE, process |-> "none",
     ws |-> "none", cookies |-> FALSE, failed |-> FALSE, calls |-> <<>>,
     result |-> "pending"]

Called(op, outcome) == [op |-> op, outcome |-> outcome]

\* where a return or an exception inside the outer try block leads: the
\* finally block that terminates the process
ToFinally_Skipped == "returned"

ToFinally == "terminate"

\* the function returns
DevtoolsReturn(d, result) == [d EXCEPT !.pc = "returned", !.result = result]

readerFrame ==
    <<authVars, chatVars, modelVars, configVars, cookieVars, netVars, promptVars>>

\* the checks before the launch, and subprocess.Popen
devtools_launch(env) ==
    /\ devtools.pc = "entry"
    /\ devtools' =
          IF ~(env.is_windows /\ env.HAS_WEBSOCKET) THEN DevtoolsReturn(devtools, "None")
          ELSE IF ~env.executable_path \/ ~env.user_data_dir \/ ~env.dir_exists
          THEN DevtoolsReturn(devtools, "None")
          ELSE IF env.popen = "raise"
          THEN DevtoolsReturn([devtools EXCEPT !.calls = Append(@, Called("Popen", "raise"))],
                              "None")
          ELSE [devtools EXCEPT !.pc = "poll", !.process = "running",
                                !.calls = Append(@, Called("Popen", "ok"))]
    /\ UNCHANGED <<dbread, readerFrame>>

\* one pass of the polling loop; after the last one, "if not ws_url: return None"
devtools_poll(outcome) ==
    /\ devtools.pc = "poll"
    /\ devtools.polls < PollLimit
    /\ devtools' =
          IF outcome = "url"
          THEN [devtools EXCEPT !.polls = @ + 1, !.ws_url = TRUE, !.pc = "connect"]
          ELSE IF devtools.polls + 1 = PollLimit
          THEN [devtools EXCEPT !.polls = @ + 1, !.pc = ToFinally]
          ELSE [devtools EXCEPT !.polls = @ + 1]
    /\ UNCHANGED <<dbread, readerFrame>>

\* ws = create_connection(ws_url, timeout=5)
devtools_connect(outcome) ==
    /\ devtools.pc = "connect"
    /\ devtools' =
          IF outcome = "raise"
          THEN \* ws is None in the inner finally; the outer except returns None
               [devtools EXCEPT !.pc = ToFinally,
                                !.calls = Append(@, Called("create_connection", "raise"))]
          ELSE [devtools EXCEPT !.pc = "Network.enable", !.ws = "open",
                                !.calls = Append(@, Called("create_connection", "ok"))]
    /\ UNCHANGED <<dbread, readerFrame>>

\* send_command: one reply read from the websocket
devtools_reply(outcome) ==
    /\ devtools.pc \in {"Network.enable", "Network.getCookies", "Storage.getCookies"}
    /\ devtools' =
          IF outcome = "other_id" THEN devtools
          ELSE IF outcome = "raise"
          THEN [devtools EXCEPT !.pc = "ws.close", !.failed = TRUE]
          ELSE IF devtools.pc = "Network.enable"
          THEN [devtools EXCEPT !.pc = "Network.getCookies"]
          ELSE IF devtools.pc = "Network.getCookies" /\ outcome = "empty"
          THEN [devtools EXCEPT !.pc = "Storage.getCookies"]
          ELSE [devtools EXCEPT !.pc = "ws.close", !.cookies = (outcome = "cookies")]
    /\ UNCHANGED <<dbread, readerFrame>>

\* the inner finally: ws.close(); then the result is built
devtools_ws_close(outcome) ==
    /\ devtools.pc = "ws.close"
    /\ devtools' =
          [devtools EXCEPT
              !.pc = ToFinally,
              !.ws = IF outcome = "ok" THEN "closed" ELSE @,
              !.failed = @ \/ outcome = "raise",
              !.calls = Append(@, Called("ws.close", outcome))]
    /\ UNCHANGED <<dbread, readerFrame>>

\* what the function returns once the outer finally has run
DevtoolsResult(d) == IF ~d.failed /\ d.cookies THEN "cookies" ELSE "None"

\* the outer finally: process.terminate()
devtools_terminate(outcome) ==
    /\ devtools.pc = "terminate"
    /\ devtools' =
          [devtools EXCEPT !.pc = IF outcome = "ok" THEN "wait" ELSE "kill",
                           !.calls = Append(@, Called("terminate", outcome))]
    /\ UNCHANGED <<dbread, readerFrame>>

\* process.wait(timeout=5): the process exits, or TimeoutExpired
devtools_wait(outcome) ==
    /\ devtools.pc = "wait"
    /\ devtools' =
          IF outcome = "ok"
          THEN DevtoolsReturn([devtools EXCEPT !.process = "exited",
                                               !.calls = Append(@, Called("wait", "ok"))],
                              DevtoolsResult(devtools))
          ELSE [devtools EXCEPT !.pc = "kill",
                                !.calls = Append(@, Called("wait", "raise"))]
    /\ UNCHANGED <<dbread, readerFrame>>

\* process.kill(); an exception it raises is passed over
devtools_kill(outcome) ==
    /\ devtools.pc = "kill"
    /\ devtools' =
          DevtoolsReturn([devtools EXCEPT
                             !.process = IF outcome = "ok" THEN "exited" ELSE @,
                             !.calls = Append(@, Called("kill", outcome))],
                         DevtoolsResult(devtools))
    /\ UNCHANGED <<dbread, readerFrame>>

InitDevtools == devtools = [NoDevtools EXCEPT !.pc = "entry"]

\* ------------------------------------------------------------------------
\* _get_firefox_cookies_direct, _get_chromium_cookies_direct
\* (app/utils/browser.py)
\* ------------------------------------------------------------------------
\* the encrypted_value column: empty, a value that decrypts, a value whose
\* tag was altered and that the OS key store does not unwrap
NoEncrypted == [present |-> FALSE]

Encrypted(inp) == [present |-> TRUE, inp |-> inp]

GoodEncrypted ==
    Encrypted(DecryptInput("windows+crypto", "ok", Outcome("none", <<TheKey>>),
                           Outcome("pywintypes.error", <<>>), <<118, 49, 48>>, <<97>>, 0, 0))

BadEncrypted ==
    Encrypted(DecryptInput("windows+crypto", "ok", Outcome("none", <<TheKey>>),
                           Outcome("pywintypes.error", <<>>), <<118, 49, 48>>, <<97>>, 32, 0))

\* one row of the cookies table
Row(value, encrypted_value) == [value |-> value, encrypted_value |-> encrypted_value]

RowLists ==
    { <<>>,
      <<Row(<<"v">>, NoEncrypted)>>,
      <<Row(<<>>, GoodEncrypted), Row(<<>>, BadEncrypted)>>,
      <<Row(<<>>, BadEncrypted), Row(<<>>, NoEncrypted)>> }

\* what the environment decides during a direct read
DbInputs ==
    [browser : {"firefox", "chromium"},
     is_windows : BOOLEAN,
     local_state_path : BOOLEAN,
     exists : BOOLEAN,
     mkstemp : {"ok", "raise"},
     copy : {"ok", "locked", "oserror"},
     connect : {"ok", "raise"},
     readonly : {"first", "second", "none"},
     query : {"ok", "raise"},
     rows : RowLists,
     close : {"ok", "raise"},
     unlink : {"ok", "oserror"}]

\* the temporary copy
TempDb == "temp_db_path"

\* os.unlink(temp_db_path) inside "try ... except OSError: pass"
Unlink(inp, files) == IF inp.unlink = "ok" THEN files \ {TempDb} ELSE files

\* what a direct read produced: the cookies returned (None: <<"None">>),
\* whether it raised, the temporary files left on disk, the connection left
\* open, and the path it took
DbRead(cookies, left, files, open, path) ==
    [cookies |-> cookies, raised |-> left, files |-> files, open |-> open,
     path |-> path]

\* final_value or "" of one row
final_value(inp, row) ==
    IF row.value = <<>> /\ row.encrypted_value.present
       /\ inp.is_windows /\ inp.local_state_path
    THEN LET decrypted_value == decrypt_chrome_cookie_value(row.encrypted_value.inp).result IN
         IF decrypted_value.present /\ decrypted_value.text # <<>>
         THEN decrypted_value.text
         ELSE row.value
    ELSE row.value

\* the cookies built from the rows; None when every value is empty
ChromiumCookies(inp) ==
    LET cookies == [n \in DOMAIN inp.rows |-> final_value(inp, inp.rows[n])] IN
    IF cookies # <<>> /\ \A n \in DOMAIN cookies : cookies[n] = <<>>
    THEN None
    ELSE cookies

FirefoxCookies(inp) == [n \in DOMAIN inp.rows |-> inp.rows[n].value]

\* shutil.copy2 raises inside the "with NamedTemporaryFile(delete=False)"
\* block: the try block whose finally unlinks the copy is not entered yet
FirefoxCopyFailed(inp) == DbRead(None, FALSE, {TempDb}, FALSE, <<"copy failed">>)

get_firefox_cookies_direct(inp) ==
    IF ~inp.exists THEN DbRead(None, FALSE, {}, FALSE, <<"not found">>)
    ELSE IF inp.mkstemp = "raise" THEN DbRead(None, FALSE, {}, FALSE, <<"no temp file">>)
    ELSE IF inp.copy # "ok" THEN FirefoxCopyFailed(inp)
    ELSE IF inp.connect = "raise"
    THEN DbRead(None, FALSE, Unlink(inp, {TempDb}), FALSE, <<"open failed">>)
    ELSE IF inp.query = "raise"
    THEN \* conn.close() is not reached
         DbRead(None, FALSE, Unlink(inp, {TempDb}), TRUE, <<"query failed">>)
    ELSE IF inp.close = "raise"
    THEN DbRead(None, FALSE, Unlink(inp, {TempDb}), TRUE, <<"close failed">>)
    ELSE DbRead(FirefoxCookies(inp), FALSE, Unlink(inp, {TempDb}), FALSE, <<"read">>)

\* the outer finally of _get_chromium_cookies_direct: connection.close(),
\* then os.unlink(temp_db_path)
ChromiumFinally(inp, cookies, files, connected, path) ==
    IF connected /\ inp.close = "raise"
    THEN DbRead(cookies, TRUE, files, TRUE, path)
    ELSE DbRead(cookies, FALSE, Unlink(inp, files), FALSE, path)

\* cursor.execute and the loop over the rows
ChromiumQuery(inp, files, path) ==
    IF inp.query = "raise"
    THEN ChromiumFinally(inp, None, files, TRUE, Append(path, <<"query failed">>))
    ELSE ChromiumFinally(inp, ChromiumCookies(inp), files, TRUE, path)

get_chromium_cookies_direct(inp) ==
    IF ~inp.exists THEN ChromiumFinally(inp, None, {}, FALSE, <<"not found">>)
    ELSE IF inp.mkstemp = "raise"
    THEN ChromiumFinally(inp, None, {}, FALSE, <<"no temp file">>)
    ELSE IF inp.copy = "oserror"
    THEN ChromiumFinally(inp, None, {TempDb}, FALSE, <<"copy failed">>)
    ELSE IF inp.copy = "locked"
    THEN \* winerror 32: the copy is unlinked, temp_db_path = None
         LET files == Unlink(inp, {TempDb}) IN
         IF inp.readonly = "none"
         THEN DbRead(None, FALSE, files, FALSE, <<"read-only failed">>)
         ELSE IF inp.query = "raise"
         THEN IF inp.close = "raise"
              THEN DbRead(None, TRUE, files, TRUE, <<"read-only query failed">>)
              ELSE DbRead(None, FALSE, files, FALSE, <<"read-only query failed">>)
         ELSE IF inp.close = "raise"
              THEN DbRead(ChromiumCookies(inp), TRUE, files, TRUE, <<"read-only">>)
              ELSE DbRead(ChromiumCookies(inp), FALSE, files, FALSE, <<"read-only">>)
    ELSE IF inp.connect = "raise"
    THEN ChromiumFinally(inp, None, {TempDb}, FALSE, <<"open failed">>)
    ELSE ChromiumQuery(inp, {TempDb}, <<"read">>)

NoDbRead == [stage |-> "idle"]

\* one direct read, as get_cookies_with_fallback calls it
DirectRead ==
    /\ dbread.stage = "pending"
    /\ dbread' = [stage |-> "called", inp |-> dbread.inp,
                  out |-> IF dbread.inp.browser = "firefox"
                          THEN get_firefox_cookies_direct(dbread.inp)
                          ELSE get_chromium_cookies_direct(dbread.inp)]
    /\ UNCHANGED <<devtools, readerFrame>>

InitDbRead == dbread \in {[stage |-> "pending", inp |-> i] : i \in DbInputs}

\* the readers: a DevTools session, or one direct read
InitReaders ==
    \/ InitDevtools /\ dbread = NoDbRead
    \/ InitDbRead /\ devtools = NoDevtools

NextReaders ==
    \/ \E env \in DevtoolsEnvs : devtools_launch(env)
    \/ \E outcome \in PollOutcomes : devtools_poll(outcome)
    \/ \E outcome \in CallOutcomes : devtools_connect(outcome)
    \/ \E outcome \in ReplyOutcomes : devtools_reply(outcome)
    \/ \E outcome \in CallOutcomes : devtools_ws_close(outcome)
    \/ \E outcome \in CallOutcomes : devtools_terminate(outcome)
    \/ \E outcome \in CallOutcomes : devtools_wait(outcome)
    \/ \E outcome \in CallOutcomes : devtools_kill(outcome)
    \/ DirectRead

\* ------------------------------------------------------------------------
\* Specifications: one per component, the other components at rest
\* ------------------------------------------------------------------------
AuthIdle ==
    /\ authConfig = None
    /\ authCred = None
    /\ authResult = NoResult

ChatIdle == globalClient = FALSE /\ ChatRest

ModelsIdle ==
    /\ CACHED_MODELS = None
    /\ CACHE_TIMESTAMP = 0
    /\ now = 0
    /\ ticks = 0
    /\ libModels = <<>>
    /\ mreq = <<>>
    /\ log = <<>>

ConfigIdle == configFile = MissingFile /\ loads = <<>>

CookiesIdle == decrypted = NoDecrypt /\ extraction = NoExtraction

NetIdle == httpClients = <<>> /\ netLog = <<>>

PromptIdle == built = NoBuild

ReadersIdle == devtools = NoDevtools /\ dbread = NoDbRead

RestIdle == ConfigIdle /\ CookiesIdle /\ NetIdle /\ PromptIdle /\ ReadersIdle

InitAuthSpec == InitAuth /\ ChatIdle /\ ModelsIdle /\ RestIdle

SpecAuth == InitAuthSpec /\ [][NextAuth]_vars

InitChat == globalClient \in BOOLEAN /\ ChatRest

InitChatSpec == InitChat /\ AuthIdle /\ ModelsIdle /\ RestIdle

SpecChat == InitChatSpec /\ [][NextChat]_vars

InitModelsSpec ==
    /\ InitModels /\ AuthIdle /\ RestIdle
    /\ globalClient \in BOOLEAN /\ ChatRest

SpecModels == InitModelsSpec /\ [][NextModels]_vars

InitConfigSpec ==
    /\ InitConfig /\ AuthIdle /\ ChatIdle /\ ModelsIdle
    /\ CookiesIdle /\ NetIdle /\ PromptIdle /\ ReadersIdle

SpecConfig == InitConfigSpec /\ [][NextConfig]_vars

InitCookiesSpec ==
    /\ InitCookies /\ AuthIdle /\ ChatIdle /\ ModelsIdle
    /\ ConfigIdle /\ NetIdle /\ PromptIdle /\ ReadersIdle

SpecCookies == InitCookiesSpec /\ [][NextCookies]_vars

InitNetSpec ==
    /\ globalClient \in BOOLEAN /\ ChatRest
    /\ InitNet /\ AuthIdle /\ ModelsIdle
    /\ ConfigIdle /\ CookiesIdle /\ PromptIdle /\ ReadersIdle

SpecNet == InitNetSpec /\ [][NextNet]_vars

InitPromptSpec ==
    /\ InitPrompt /\ AuthIdle /\ ChatIdle /\ ModelsIdle
    /\ ConfigIdle /\ CookiesIdle /\ NetIdle /\ ReadersIdle

SpecPrompt == InitPromptSpec /\ [][NextPrompt]_vars

InitReadersSpec ==
    /\ InitReaders /\ AuthIdle /\ ChatIdle /\ ModelsIdle
    /\ ConfigIdle /\ CookiesIdle /\ NetIdle /\ PromptIdle

SpecReaders == InitReadersSpec /\ [][NextReaders]_vars

NonStreaming == route = "chat" /\ ~request.stream

Streaming == route = "chat" /\ request.stream

GenCalls == {i \in DOMAIN trace : trace[i].op = "generate_content"}

InitCalls == {i \in DOMAIN trace : trace[i].op = "init_gemini_client"}

TransportFailure(e) ==
    e.op = "generate_content" /\ e.kind = "raise" /\ e.exc.type = "RemoteProtocolError"

\* C2: a non-streaming chat request calls generate_content at most twice
\* and init_gemini_client at most once; the second generate_content call
\* follows a first call that raised RemoteProtocolError and a successful
\* reinitialization; a first attempt that ends otherwise is followed by no
\* retry and no reinitialization.
C2_RetryOnce ==
    NonStreaming =>
        /\ Cardinality(GenCalls) <= 2
        /\ Cardinality(InitCalls) <= 1
        /\ \A j \in GenCalls :
              j > 1 => /\ j = 3
                       /\ TransportFailure(trace[1])
                       /\ trace[2].op = "init_gemini_client"
                       /\ trace[2].success
        /\ (trace # <<>> /\ ~TransportFailure(trace[1])) => Len(trace) = 1

\* the retry happened: error, successful reinitialization, second call
C2_Witness ==
    /\ NonStreaming
    /\ Len(trace) = 3
    /\ TransportFailure(trace[1])
    /\ trace[2].success
    /\ trace[3].op = "generate_content"

\* C3: in a non-streaming chat request, a transport error on the second
\* attempt, or a reinitialization that returns false or leaves no handle,
\* ends the request: no further call is made and the caller receives a 500
\* whose detail carries the message of the transport error that was raised.
C3_TransportErrorPropagates ==
    NonStreaming =>
        /\ (Len(trace) >= 3 /\ TransportFailure(trace[3])) =>
              /\ Len(trace) = 3
              /\ pc = "done"
              /\ response.status = 500
              /\ response.detail[2] = trace[3].exc.msg
        /\ (Len(trace) >= 2 /\ trace[2].op = "init_gemini_client"
            /\ trace[2].kind = "return" /\ ~trace[2].success) =>
              /\ Len(trace) = 2
              /\ pc = "done"
              /\ response.status = 500
              /\ response.detail[2] = trace[1].exc.msg

\* the transport error persisted on the second attempt
C3_Witness ==
    /\ NonStreaming
    /\ Len(trace) = 3
    /\ TransportFailure(trace[3])
    /\ trace[3].exc.msg # trace[1].exc.msg
    /\ response.status = 500

\* C4: a non-streaming chat request whose upstream call returns a non-empty
\* text answers 200 with one chat.completion object holding a single choice
\* (index 0, role assistant, finish_reason stop) whose message content is
\* the upstream text, unchanged.
C4_ContentVerbatim ==
    (NonStreaming /\ trace # <<>>
     /\ trace[Len(trace)].op = "generate_content"
     /\ trace[Len(trace)].kind = "ok"
     /\ ~Falsy(trace[Len(trace)].text)) =>
        /\ pc = "done"
        /\ response.status = 200
        /\ response.body.object = "chat.completion"
        /\ Len(response.body.choices) = 1
        /\ response.body.choices[1].index = 0
        /\ response.body.choices[1].message.role = "assistant"
        /\ response.body.choices[1].finish_reason = "stop"
        /\ response.body.choices[1].message.content = trace[Len(trace)].text

\* a text of more than one character was returned to the caller
C4_Witness ==
    /\ NonStreaming
    /\ pc = "done"
    /\ response.status = 200
    /\ Len(response.body.choices[1].message.content) >= 2

RECURSIVE ContentOf(_)
\* the content deltas of a frame sequence, concatenated in emission order
ContentOf(fs) ==
    IF fs = <<>> THEN <<>>
    ELSE (IF Head(fs).kind = "content" THEN Head(fs).piece ELSE <<>>) \o ContentOf(Tail(fs))

\* the full upstream text: the text of the last upstream chunk that carries
\* one (a chunk may carry thoughts only)
LastUpstreamText ==
    LET withText == {n \in DOMAIN upstream : ~Falsy(upstream[n].text)} IN
    IF withText = {} THEN <<>>
    ELSE upstream[CHOOSE n \in withText : \A m \in withText : m <= n].text

\* C5: a finished streaming chat response ends with the frame data: [DONE]
\* and its content deltas, concatenated in emission order, are the full
\* upstream text, the text of the last upstream chunk.
C5_StreamReassembles ==
    (Streaming /\ pc = "done" /\ response.status = 200) =>
        /\ frames # <<>>
        /\ frames[Len(frames)] = DoneFrame
        /\ ContentOf(frames) = LastUpstreamText

\* C6 as stated: whenever an exception ended the serving of a request, on
\* any route, the caller received a 500 whose detail holds its message.
C6_Original ==
    (pc = "done" /\ raised # NoExc) =>
        /\ response.status = 500
        /\ response.detail[2] = raised.msg

\* C6, amended: on every route but the streaming chat path an exception
\* raised inside the handler's try block gives a 500 whose detail holds
\* its message; on the streaming path the upstream exception is absorbed by
\* the generator: the response keeps status 200 and ends with the finish
\* frame and data: [DONE].
C6_ErrorsAtBoundary ==
    (pc = "done" /\ raised # NoExc) =>
        IF Streaming
        THEN /\ response.status = 200
             /\ Len(frames) >= 2
             /\ frames[Len(frames)] = DoneFrame
             /\ frames[Len(frames) - 1].kind = "finish"
        ELSE /\ response.status = 500
             /\ response.detail[2] = raised.msg

\* the upstream call of /translate failed and the caller got the 500
C6_Witness ==
    /\ route = "translate"
    /\ raised.type = "Exception"
    /\ response.status = 500

\* C7: in a non-streaming chat request an upstream response with an empty
\* text ends the request with a 500 raised as a ValueError, not as a
\* transport error: no upstream call and no reinitialization follows it.
C7_EmptyResponseNoRetry ==
    NonStreaming =>
        \A i \in DOMAIN trace :
            (trace[i].op = "generate_content" /\ trace[i].kind = "ok"
             /\ Falsy(trace[i].text)) =>
                /\ i = Len(trace)
                /\ pc = "done"
                /\ response.status = 500
                /\ raised.type = "ValueError"
                /\ last_transport_exc.type \in {"none", "RemoteProtocolError"}

\* an empty text came back on the first attempt
C7_Witness ==
    /\ NonStreaming
    /\ Len(trace) = 1
    /\ trace[1].kind = "ok"
    /\ trace[1].text = <<>>
    /\ response.status = 500

ListCalls == {i \in DOMAIN log : log[i].op = "list"}

Writes == {i \in DOMAIN log : log[i].wrote}

ForceWriteBetween(i, j) ==
    \E f \in Writes : i < f /\ f < j /\ log[f].op = "force"

\* a call that finds a cache whose timestamp is at least the TTL old does
\* not answer from the cache
ExpiredCallsRequery ==
    \A j \in ListCalls :
        (log[j].tsBefore # 0 /\ log[j].time - log[j].tsBefore >= CACHE_TTL) => ~log[j].hit

\* C8 as stated: any two model-list calls made within the TTL window of a
\* successful discovery return identical results, the later one from the
\* cache; a call after the TTL has expired queries again.
C8_Original ==
    /\ \A k, i, j \in ListCalls :
          (k <= i /\ i < j /\ log[k].wrote /\ log[j].time - log[k].time < CACHE_TTL) =>
              /\ log[j].hit
              /\ log[j].result = log[i].result
    /\ ExpiredCallsRequery

\* C8, amended: two model-list calls made within the TTL window of a
\* successful discovery, with no force-discovery write between them, return
\* identical results, the later one from the cache; a call after the TTL
\* has expired queries again.
C8_CacheWithinTTL ==
    /\ \A k, i, j \in ListCalls :
          (k <= i /\ i < j /\ log[k].wrote /\ log[j].time - log[k].time < CACHE_TTL
           /\ ~ForceWriteBetween(i, j)) =>
              /\ log[j].hit
              /\ log[j].result = log[i].result
    /\ ExpiredCallsRequery

\* a discovery, a later call answered from the cache, and a call that
\* queried again once the TTL had passed
C8_Witness ==
    \E k, i, j \in ListCalls :
        /\ k < i /\ i < j
        /\ log[k].wrote
        /\ log[i].hit /\ log[i].time > log[k].time
        /\ log[j].wrote /\ log[j].time - log[k].time >= CACHE_TTL

\* C9 as stated: two writes of the cache are never less than the TTL apart.
C9_Original ==
    \A i, j \in Writes : i < j => log[j].time - log[i].time >= CACHE_TTL

\* C9, amended: a write of the cache by _discover_gemini_models is never
\* less than the TTL after the previous write of the cache; a write by
\* force_discover_models is not held back by the TTL.
C9_DiscoveryWritesOncePerTTL ==
    \A i, j \in Writes :
        (i < j /\ log[j].op = "list") => log[j].time - log[i].time >= CACHE_TTL

\* the cache was written by a force-discovery and, a TTL later, by a
\* model-list call
C9_Witness ==
    \E i, j \in Writes :
        /\ i < j
        /\ log[i].op = "force"
        /\ log[j].op = "list"

\* C10 as stated: every writer of the cache stores the same list.
C10_Original ==
    \A i, j \in Writes : log[i].result = log[j].result

LastWrite == CHOOSE i \in Writes : \A j \in Writes : j <= i

\* C10, amended: every write made by _discover_gemini_models stores the
\* same list, the valid names of the library's constants; a force-discovery
\* stores the list parsed from the upstream error, and the cache holds the
\* list of whichever write came last.
C10_WritersAndLastWrite ==
    /\ \A i \in Writes \cap ListCalls : log[i].result = ValidModels(libModels)
    /\ \A i, j \in Writes \cap ListCalls : log[i].result = log[j].result
    /\ Writes = {} => CACHED_MODELS = None
    /\ Writes # {} => CACHED_MODELS = log[LastWrite].result

\* a force-discovery finished after a model-list call had written the cache
\* and replaced the list with a different one
C10_Witness ==
    \E i, j \in Writes :
        /\ i < j
        /\ log[i].op = "list"
        /\ log[j].op = "force"
        /\ log[i].result # log[j].result
        /\ CACHED_MODELS = log[j].result

\* ---- the configuration loader ----
SevenSections ==
    << <<"Browser">>, <<"Cookies">>, <<"AI">>, <<"Proxy">>, <<"Auth">>,
       <<"Logging">>, <<"CustomHeaders">> >>

SectionNames(config) == [n \in DOMAIN config |-> config[n].name]

\* the option names of a section of a configuration
KeysOf(config, name) ==
    UNION { {config[n].options[m].key[1] : m \in DOMAIN config[n].options} :
            n \in {k \in DOMAIN config : config[k].name = name} }

\* the documented keys of the default sections
HasDefaultKeys(config) ==
    /\ SectionNames(config) = SevenSections
    /\ KeysOf(config, <<"Browser">>) = {"name"}
    /\ KeysOf(config, <<"Cookies">>) = {}
    /\ KeysOf(config, <<"AI">>) = {"default_model_gemini"}
    /\ KeysOf(config, <<"Proxy">>) = {"http_proxy"}
    /\ KeysOf(config, <<"Auth">>) = {"api_key"}
    /\ KeysOf(config, <<"Logging">>) = {"debug"}
    /\ KeysOf(config, <<"CustomHeaders">>) =
          { "user-agent", "accept", "accept-language", "x-same-domain",
            "sec-fetch-dest", "sec-fetch-mode", "sec-fetch-site", "sec-ch-ua",
            "sec-ch-ua-arch", "sec-ch-ua-bitness", "sec-ch-ua-form-factors",
            "sec-ch-ua-full-version", "sec-ch-ua-mobile", "sec-ch-ua-model",
            "sec-ch-ua-platform", "sec-ch-ua-platform-version", "sec-ch-ua-wow64",
            "x-browser-channel", "x-browser-year", "x-goog-ext-525005358-jspb",
            "x-goog-ext-73010989-jspb", "origin", "referer" }

\* load number i found no file and wrote one
WroteDefaults(i) == ~loads[i].before.exists /\ loads[i].writeError = "none"

\* load number j read the file load number j - 1 wrote, and wrote it back
ReloadOf(j) ==
    /\ j - 1 \in DOMAIN loads /\ j \in DOMAIN loads
    /\ WroteDefaults(j - 1)
    /\ loads[j].before = loads[j - 1].after
    /\ loads[j].writeError = "none"

\* C11: load_config on a missing file returns a configuration holding the
\* seven default sections with their default keys and, when the file can be
\* written, writes that configuration to it; a second load_config on the
\* file just written returns the same configuration and leaves the file as
\* it was.
C11_DefaultsIdempotent ==
    \A i \in DOMAIN loads :
        /\ ~loads[i].before.exists => HasDefaultKeys(loads[i].config)
        /\ WroteDefaults(i) =>
              /\ loads[i].after.exists
              /\ loads[i].after.lines = ConfigWrite(loads[i].config)
        /\ ReloadOf(i) =>
              /\ loads[i].config = loads[i - 1].config
              /\ loads[i].after = loads[i - 1].after
              /\ loads[i].readError = "none"

C11_Witness ==
    \E j \in DOMAIN loads :
        /\ ReloadOf(j)
        /\ loads[j].after.lines # <<>>
        /\ HasDefaultKeys(loads[j].config)

\* the seven default sections are present
HasSevenSections(config) ==
    \A n \in DOMAIN SevenSections : HasSection(config, SevenSections[n])

\* the file exists and reading it failed: it could not be opened, could not
\* be decoded or could not be parsed
ReadFailed(l) ==
    l.before.exists /\ (l.before.openRead # "ok" \/ l.readError # "none")

Logged(l, msg) == \E n \in DOMAIN l.logged : l.logged[n].msg = msg

\* C12: whenever reading the file fails (unreadable or malformed) the read
\* error is logged, whenever writing it back fails the write error is
\* logged, and the configuration returned holds the seven default sections.
C12_IOErrorsLogged ==
    \A i \in DOMAIN loads :
        /\ ReadFailed(loads[i]) => Logged(loads[i], "Error reading config file: ")
        /\ loads[i].writeError # "none" => Logged(loads[i], "Error writing to config file: ")
        /\ HasSevenSections(loads[i].config)

\* ---- cookie decryption ----
DecryptCalled == decrypted.stage = "called"

\* the call reached the split of a modern value
SplitReached == DecryptCalled /\ decrypted.out.parts # NoParts

\* the value is as it was built, and the key store returns the key it was
\* built with
BuiltAndKeyed ==
    /\ DecryptCalled
    /\ decrypted.inp.pos = 0 /\ decrypted.inp.cut = 0
    /\ IsModern(decrypted.inp.prefix)
    /\ decrypted.inp.platform = "windows+crypto"
    /\ decrypted.inp.local_state = "ok"
    /\ decrypted.inp.keyStore = Outcome("none", <<TheKey>>)

IsText(bytes) == \A n \in DOMAIN bytes : bytes[n] < 128

DpapiExpected(dpapi) ==
    IF dpapi.exc = "none" /\ IsText(dpapi.bytes) THEN Present(dpapi.bytes) ELSE Absent

\* a byte of the tag of a modern value was altered, on a platform where the
\* key is recovered
TagAltered ==
    /\ DecryptCalled
    /\ decrypted.inp.cut = 0
    /\ decrypted.inp.pos > Len(decrypted.inp.value) - 16
    /\ decrypted.inp.pos <= Len(decrypted.inp.value)
    /\ IsModern(decrypted.inp.prefix)
    /\ decrypted.inp.platform = "windows+crypto"
    /\ decrypted.inp.local_state = "ok"
    /\ decrypted.inp.keyStore.exc = "none"

LastStep == decrypted.out.steps[Len(decrypted.out.steps)]

\* a step before the decryption failed
StepFailed ==
    \/ decrypted.inp.platform # "windows+crypto"
    \/ decrypted.inp.local_state # "ok"
    \/ decrypted.inp.keyStore.exc # "none"

\* C14: _decrypt_chrome_cookie_value never raises; when the authenticated
\* decryption of a modern value fails (a byte of the tag was altered) the
\* legacy unwrap of the whole value is attempted next and its result is
\* returned, None when it fails too; when an earlier step fails (platform,
\* key file, key entry, key unwrap) the routine returns None.
C14_NeverRaises ==
    DecryptCalled =>
        /\ decrypted.out.raised = "none"
        /\ TagAltered =>
              /\ decrypted.out.steps = <<"local_state", "key", "aes", "dpapi_fallback">>
              /\ decrypted.out.result = DpapiExpected(decrypted.inp.dpapi)
        /\ (decrypted.out.steps # <<>> /\ LastStep \in {"dpapi_fallback", "dpapi_legacy"}
            /\ decrypted.inp.dpapi.exc # "none") => decrypted.out.result = Absent
        /\ StepFailed => decrypted.out.result = Absent

C14_Witness ==
    /\ TagAltered
    /\ decrypted.inp.pos = Len(decrypted.inp.value)
    /\ decrypted.inp.dpapi.exc # "none"
    /\ decrypted.out.result = Absent
    /\ LastStep = "dpapi_fallback"

\* ---- cookie extraction ----
Extracting == extraction.stage = "called"

Strategies == <<"library", "direct", "devtools">>

Answer(env, n) ==
    IF n = 1 THEN env.library ELSE IF n = 2 THEN env.direct ELSE env.devtools

\* the strategies before number n yielded no cookies
EarlierFailed(env, n) == \A m \in 1..(n - 1) : ~Truthy(Answer(env, m))

\* the strategies a call attempts when every strategy is attempted once all
\* earlier ones yielded no cookies
ExpectedAttempts(env) ==
    SelectSeq(Strategies,
              LAMBDA s : \E n \in 1..3 : Strategies[n] = s /\ EarlierFailed(env, n))

\* the first non-empty answer, in the order of the strategies
FirstFound(env) ==
    IF \E n \in 1..3 : Truthy(Answer(env, n))
    THEN Answer(env, CHOOSE n \in 1..3 : Truthy(Answer(env, n)) /\ EarlierFailed(env, n))
    ELSE NotFound

\* the statement of C15 as it was made: every strategy is attempted once
\* the earlier ones failed, whatever the platform, the browser, the profile
C15_Original ==
    Extracting =>
        /\ extraction.fallback.attempts = ExpectedAttempts(extraction.inp.env)
        /\ extraction.fallback.found = FirstFound(extraction.inp.env)
        /\ ~extraction.out.raised
        /\ ~Truthy(extraction.fallback.found) => ~extraction.out.pair.present

\* the strategies that apply: the library for the profile "Default", the
\* database read on Windows for Firefox and the Chromium browsers when the
\* database was located, DevTools on Windows for the Chromium browsers
Applies(env, n) ==
    IF n = 1 THEN env.profile = "Default"
    ELSE IF n = 2
    THEN /\ env.is_windows /\ ~env.pathsRaise /\ env.dbFound
         /\ env.browser \in ChromiumBrowsers \cup {"firefox"}
    ELSE env.is_windows /\ ~env.pathsRaise /\ env.browser \in ChromiumBrowsers

EarlierApplicableFailed(env, n) ==
    \A m \in 1..(n - 1) : Applies(env, m) => ~Truthy(Answer(env, m))

ApplicableAttempts(env) ==
    SelectSeq(Strategies,
              LAMBDA s : \E n \in 1..3 :
                  Strategies[n] = s /\ Applies(env, n) /\ EarlierApplicableFailed(env, n))

FirstApplicableFound(env) ==
    IF \E n \in 1..3 : Applies(env, n) /\ Truthy(Answer(env, n))
    THEN Answer(env, CHOOSE n \in 1..3 :
                        /\ Applies(env, n) /\ Truthy(Answer(env, n))
                        /\ EarlierApplicableFailed(env, n))
    ELSE NotFound

\* C15: the strategies that apply are tried in the order library lookup,
\* direct database read, DevTools protocol; one is attempted only when every
\* earlier attempted one yielded no cookies, a failing one falls through to
\* the next that applies, the first non-empty result is returned, and when
\* none yields cookies get_cookie_from_browser returns None without
\* raising, unless reading the [Browser] options of CONFIG raised.
C15_FallbackOrder ==
    Extracting =>
        /\ extraction.fallback.attempts = ApplicableAttempts(extraction.inp.env)
        /\ extraction.fallback.found = FirstApplicableFound(extraction.inp.env)
        /\ extraction.out.raised = ~extraction.inp.configOk
        /\ ~Truthy(extraction.fallback.found) => ~extraction.out.pair.present

C15_Witness ==
    /\ Extracting
    /\ extraction.fallback.attempts = Strategies
    /\ Truthy(extraction.fallback.found)
    /\ extraction.fallback.found = extraction.inp.env.devtools
    /\ ~Truthy(extraction.inp.env.library) /\ ~Truthy(extraction.inp.env.direct)

\* the cookies of a name found on a domain holding "google"
GoogleCookies(cookies, name) ==
    {n \in DOMAIN cookies :
        /\ cookies[n].hasAttrs /\ cookies[n].name = name
        /\ InDomain("google", cookies[n].domain)}

NotBlank(value) == Strip(value) # <<>>

\* the cookies the call worked on
Jar == extraction.fallback.found.cookies

C17_Original ==
    /\ Cardinality(OpenClients) <= 1
    /\ \A n \in DOMAIN netLog : httpClients[netLog[n].client].kind = "api"

\* C17: the requests to the Gemini service go through the one HTTP client
\* of the library's client; every image download goes through a client of
\* its own, created for that download after its post returned a url, and
\* the DevTools probe through a client made for that request; no other
\* client of the library's kind is ever created.
C17_ClientPerPurpose ==
    /\ \A c \in DOMAIN httpClients : httpClients[c].kind = "api" => c = 1 /\ globalClient
    /\ \A n \in DOMAIN netLog :
          LET r == netLog[n]
              client == httpClients[r.client] IN
          /\ r.op \in ApiOps => r.client = 1 /\ client.kind = "api"
          /\ r.op = "image_download" =>
                /\ client.kind = "download"
                /\ client.req < n
                /\ netLog[client.req].op = "StreamGenerate"
                /\ netLog[client.req].outcome = "url"
                /\ RequestsOf(r.client) = {n}
          /\ r.op = "devtools_probe" =>
                client.kind = "oneshot" /\ RequestsOf(r.client) = {n}

C17_Witness ==
    /\ Cardinality(OpenClients) = 2
    /\ \E n \in DOMAIN netLog :
          netLog[n].op = "image_download" /\ httpClients[netLog[n].client].open

\* ---- the route handlers ----
ImageCall == {i \in DOMAIN trace : trace[i].op = "generate_image"}

\* C18: /gemini-image answers 424 when generate_image returned no result or
\* a result without a url, and 500 only when generating the image raised.
C18_Original ==
    (route = "gemini-image" /\ pc = "done") =>
        /\ \A i \in ImageCall : trace[i].kind = "none" => response.status = 424
        /\ response.status = 500 => \E i \in ImageCall : trace[i].kind = "raise"

\* a route was entered
Entered == pc = "idle" /\ route' # "none"

NoWorkDone ==
    /\ pc' = "done"
    /\ trace' = trace
    /\ extracted_files' = extracted_files
    /\ tmpFiles' = tmpFiles

\* C19: a request that finds no client handle is answered 503 on every
\* generation route, and a chat completion request without messages is
\* answered 400; neither makes an upstream call or creates a temporary
\* file, and the 503 check comes first: without a handle a request without
\* messages is answered 503.
C19_PreconditionsFirst ==
    [][ /\ (Entered /\ ~globalClient) =>
              (NoWorkDone /\ response'.status = 503)
        /\ (Entered /\ globalClient /\ route' = "chat" /\ ~request'.hasMessages) =>
              (NoWorkDone /\ response'.status = 400) ]_vars

C19_Witness ==
    /\ route = "chat" /\ pc = "done"
    /\ ~request.hasMessages
    /\ response.status = 503
    /\ trace = <<>> /\ tmpFiles = {}

\* C20: a streaming chat completion whose upstream call failed with a
\* transport-level protocol error was retried once after the client was
\* reinitialized.
C20_StreamingRetries ==
    (Streaming /\ pc = "done" /\ raised.type = "RemoteProtocolError") =>
        /\ InitCalls # {}
        /\ Cardinality({i \in DOMAIN trace : trace[i].op = "generate_content_stream"}) = 2

\* ---- temporary files of a chat completion ----
StreamCalls == {i \in DOMAIN trace : trace[i].op = "generate_content_stream"}

\* C21: in a streaming chat completion every temporary image file extracted
\* by build_context_prompt exists when the upstream streaming call starts.
C21_FilesExistAtStreamStart ==
    Streaming => \A i \in StreamCalls : trace[i].filesPresent

\* C22: in a non-streaming chat completion every temporary file created by
\* build_context_prompt exists during each upstream attempt and none is
\* left on disk when the handler has finished.
C22_TempFilesRemoved ==
    NonStreaming =>
        /\ \A i \in GenCalls : trace[i].filesPresent
        /\ pc = "done" => tmpFiles = {}

\* ---- the frames of a streaming chat completion ----
DeltaKinds == {"reasoning", "content"}

\* the positions of the frames of a kind
FramesOf(kind) == {n \in DOMAIN frames : frames[n].kind = kind}

\* C23: the frames of generate_openai_stream are one role frame first, then
\* reasoning and content deltas only, then, once the stream has ended or the
\* upstream generator has raised, one finish frame and one [DONE] frame
\* last; nothing follows [DONE], and nothing but deltas comes between the
\* role frame and the finish frame.
C23_FrameOrder ==
    Streaming =>
        /\ frames # <<>> => FramesOf("role") = {1}
        /\ pc # "done" =>
              /\ FramesOf("finish") = {} /\ FramesOf("done") = {}
              /\ \A n \in 2..Len(frames) : frames[n].kind \in DeltaKinds
        /\ (pc = "done" /\ response.status = 200) =>
              /\ Len(frames) >= 3
              /\ FramesOf("done") = {Len(frames)}
              /\ frames[Len(frames)] = DoneFrame
              /\ FramesOf("finish") = {Len(frames) - 1}
              /\ \A n \in 2..(Len(frames) - 2) : frames[n].kind \in DeltaKinds

C23_Witness ==
    /\ Streaming /\ pc = "done"
    /\ raised.type = "RemoteProtocolError"
    /\ Len(upstream) = 1
    /\ Len(frames) = 5
    /\ frames[2].kind = "reasoning" /\ frames[3].kind = "content"
    /\ frames[4].kind = "finish" /\ frames[5] = DoneFrame

RECURSIVE PiecesOf(_, _)
\* the deltas of a kind in a frame sequence, concatenated in emission order
PiecesOf(fs, kind) ==
    IF fs = <<>> THEN <<>>
    ELSE (IF Head(fs).kind = kind THEN Head(fs).piece ELSE <<>>)
         \o PiecesOf(Tail(fs), kind)

TextLen(x) == IF Falsy(x) THEN 0 ELSE Len(x)

\* the greatest length among the texts, respectively thoughts, of chunks
GreatestText(chunks) ==
    IF chunks = <<>> THEN 0
    ELSE CHOOSE l \in {TextLen(chunks[n].text) : n \in DOMAIN chunks} :
            \A n \in DOMAIN chunks : TextLen(chunks[n].text) <= l

GreatestThoughts(chunks) ==
    IF chunks = <<>> THEN 0
    ELSE CHOOSE l \in {TextLen(chunks[n].thoughts) : n \in DOMAIN chunks} :
            \A n \in DOMAIN chunks : TextLen(chunks[n].thoughts) <= l

IsPrefix(s, t) == Len(s) <= Len(t) /\ SubSeq(t, 1, Len(s)) = s

\* every chunk's text, respectively thoughts, extends the one before
Cumulative(chunks) ==
    \A n \in 2..Len(chunks) :
        /\ ~Falsy(chunks[n].text) /\ ~Falsy(chunks[n - 1].text)
        /\ IsPrefix(chunks[n - 1].text, chunks[n].text)
        /\ ~Falsy(chunks[n].thoughts) /\ ~Falsy(chunks[n - 1].thoughts)
        /\ IsPrefix(chunks[n - 1].thoughts, chunks[n].thoughts)

\* C24: when a chunk arrives from upstream its deltas are emitted in that
\* same step, after everything emitted before: at most one reasoning delta,
\* then at most one content delta; the content, respectively reasoning,
\* emitted so far is as long as the longest text, respectively thoughts,
\* seen so far, and for chunks carrying cumulative text and thoughts it is
\* the text, respectively the thoughts, of the last chunk: no position is
\* emitted twice.
C24_ForwardedOnce ==
    [][ upstream' # upstream =>
          LET new == SubSeq(frames', Len(frames) + 1, Len(frames'))
              last == upstream'[Len(upstream')] IN
          /\ Len(upstream') = Len(upstream) + 1
          /\ IsPrefix(frames, frames')
          /\ [n \in DOMAIN new |-> new[n].kind]
                \in {<<>>, <<"reasoning">>, <<"content">>, <<"reasoning", "content">>}
          /\ Len(PiecesOf(frames', "content")) = GreatestText(upstream')
          /\ Len(PiecesOf(frames', "reasoning")) = GreatestThoughts(upstream')
          /\ Cumulative(upstream') =>
                /\ PiecesOf(frames', "content") =
                      (IF Falsy(last.text) THEN <<>> ELSE last.text)
                /\ PiecesOf(frames', "reasoning") =
                      (IF Falsy(last.thoughts) THEN <<>> ELSE last.thoughts) ]_vars

C24_Witness ==
    /\ Streaming
    /\ Len(upstream) = 2
    /\ upstream[1] = [text |-> <<"a">>, thoughts |-> <<"t">>]
    /\ upstream[2] = [text |-> <<"a", "b">>, thoughts |-> <<"t", "u">>]
    /\ PiecesOf(frames, "content") = <<"a", "b">>
    /\ PiecesOf(frames, "reasoning") = <<"t", "u">>
    /\ Len(frames) = 5

\* ---- model names ----
\* the name /v1/chat/completions sends upstream for a requested name
UpstreamName(model) ==
    IF model[1] \in {"gpt-", "text-"} THEN <<"gemini-", "3.0-flash">> ELSE model

ChatCalls == GenCalls \cup StreamCalls

\* C25: /v1/chat/completions sends a requested name that starts with gpt-
\* or text- upstream as gemini-3.0-flash and any other name unchanged; the
\* model field of the non-streaming response object and of every streaming
\* frame that has one is the requested name.
C25_ModelNames ==
    route = "chat" =>
        /\ \A i \in ChatCalls : trace[i].model = UpstreamName(request.model)
        /\ (pc = "done" /\ ~request.stream /\ response.status = 200) =>
              response.body.model = request.model
        /\ \A n \in DOMAIN frames :
              frames[n] # DoneFrame => frames[n].model = request.model

C25_Witness ==
    /\ NonStreaming /\ pc = "done" /\ response.status = 200
    /\ request.model = <<"text-", "davinci">>
    /\ response.body.model = <<"text-", "davinci">>
    /\ \E i \in GenCalls : trace[i].model = <<"gemini-", "3.0-flash">>

\* ---- build_context_prompt ----
PromptBuilt == built.stage = "called"

RECURSIVE SplitOn(_, _, _)
\* the segments of a token sequence between the separator tokens
SplitOn(tokens, sep, current) ==
    IF tokens = <<>> THEN <<current>>
    ELSE IF Head(tokens) = sep
    THEN <<current>> \o SplitOn(Tail(tokens), sep, <<>>)
    ELSE SplitOn(Tail(tokens), sep, Append(current, Head(tokens)))

\* the capitalized role a message is shown with
ShownRole(msg) ==
    IF msg.role = "SYSTEM" THEN "System"
    ELSE IF msg.role \in {"user", NoRole} THEN "User"
    ELSE "?"

IsTextPart(part) == part.type = "text"

RECURSIVE SpaceJoined(_)
\* the texts of the text parts, in order, with one space between them
SpaceJoined(parts) ==
    IF parts = <<>> THEN <<>>
    ELSE IF Len(parts) = 1 THEN parts[1].text
    ELSE parts[1].text \o <<" ">> \o SpaceJoined(Tail(parts))

ShownText(msg) ==
    IF msg.isList THEN SpaceJoined(SelectSeq(msg.parts, IsTextPart)) ELSE msg.text

\* an inline data:image part that decodes
Decodes(part) ==
    /\ part.type = "image_url"
    /\ part.url.dataImage /\ part.url.comma /\ part.url.padded

RECURSIVE CountDecoding(_)
CountDecoding(messages) ==
    IF messages = <<>> THEN 0
    ELSE Len(SelectSeq(Head(messages).parts, Decodes)) + CountDecoding(Tail(messages))

\* C26: the prompt of build_context_prompt has one segment per message, in
\* message order, separated by a blank line, each segment the capitalized
\* role, ": " and the message text (for a list content the text parts
\* joined by one space); the file list holds one path, in order of
\* creation, for each inline data:image part that decoded, and none for a
\* part that failed to decode.
C26_PromptAndFiles ==
    PromptBuilt =>
        LET messages == built.messages
            out == built.out
            segments == SplitOn(out.prompt, "\n\n", <<>>) IN
        /\ messages = <<>> => out.prompt = <<>>
        /\ messages # <<>> =>
              /\ Len(segments) = Len(messages)
              /\ \A n \in DOMAIN messages :
                    segments[n] = <<ShownRole(messages[n]), ": ">> \o ShownText(messages[n])
        /\ Len(out.file_paths) = CountDecoding(messages)
        /\ \A n \in DOMAIN out.file_paths :
              /\ out.file_paths[n] \in out.created
              /\ n > 1 => out.file_paths[n - 1] < out.file_paths[n]

C26_Witness ==
    /\ PromptBuilt
    /\ built.messages =
          << TextMessage("SYSTEM", <<"a">>),
             ListMessage(NoRole, <<BadPaddingImage, GoodImage>>) >>
    /\ built.out.prompt = <<"System", ": ", "a", "\n\n", "User", ": ">>
    /\ built.out.file_paths = <<2>>

\* ---- the model-list cache ----
\* what the cache may hold: nothing, or a non-empty list without an empty
\* entry and without "unspecified" in any case
CacheOk(cached) ==
    \/ cached = None
    \/ /\ cached # <<>>
       /\ \A n \in DOMAIN cached :
             cached[n] # "" /\ cached[n] \notin {"unspecified", "Unspecified", "UNSPECIFIED"}

Fallbacks == {FallbackNoClient, FallbackDiscoveryFailed}

\* the call a step completed
Completed == log'[Len(log')]

\* C27: _CACHED_MODELS is unset or a non-empty list without an empty entry
\* and without an entry equal to "unspecified" in any case; a call that
\* returns a hardcoded fallback list does not store it in the cache, and a
\* force-discovery that answers an error (no client, no valid model
\* parsed) leaves the cache and its timestamp as they were.
C27_CacheHoldsValidModels ==
    [][ /\ CacheOk(CACHED_MODELS')
        /\ CACHED_MODELS' \notin Fallbacks
        /\ (log' # log /\ Completed.result \in Fallbacks) =>
              UNCHANGED <<CACHED_MODELS, CACHE_TIMESTAMP>>
        /\ (log' # log /\ Completed.op = "force" /\ Completed.result = <<"error">>) =>
              UNCHANGED <<CACHED_MODELS, CACHE_TIMESTAMP>> ]_vars

C27_Witness ==
    /\ CACHED_MODELS = <<"gemini-3.0-pro", "gemini-4.0-ultra">>
    /\ \E i \in DOMAIN log : log[i].result \in Fallbacks
    /\ \E j \in DOMAIN log : log[j].op = "force" /\ log[j].result = <<"error">>

\* ---- the DevTools reader ----
DevCalls(op) == {n \in DOMAIN devtools.calls : devtools.calls[n].op = op}

FailedCall(op) == \E n \in DevCalls(op) : devtools.calls[n].outcome = "raise"

\* the helper browser process was launched
Launched == devtools.process # "none"

\* the websocket was opened
Opened == \E n \in DevCalls("create_connection") : devtools.calls[n].outcome = "ok"

\* the polling ended without a websocket url
GaveUp == Launched /\ devtools.pc # "poll" /\ ~devtools.ws_url

\* C28: once the helper browser has been launched, the function returns
\* only after process.terminate() was called, and after process.kill() was
\* called when terminate or the wait for the exit failed; the endpoint is
\* polled at most 40 times, and after 40 polls without a websocket url the
\* function opens no websocket and returns None; a websocket that was
\* opened has had close() called on it when the function returns.
C28_ProcessAndSocketReleased ==
    /\ devtools.polls <= PollLimit
    /\ GaveUp =>
          /\ devtools.polls = PollLimit
          /\ ~Opened
          /\ devtools.pc = "returned" => devtools.result = "None"
    /\ (devtools.pc = "returned" /\ Launched) =>
          /\ DevCalls("terminate") # {}
          /\ (FailedCall("terminate") \/ FailedCall("wait")) => DevCalls("kill") # {}
          /\ devtools.process = "exited" \/ FailedCall("kill")
          /\ Opened => DevCalls("ws.close") # {}

C28_Witness ==
    /\ devtools.pc = "returned"
    /\ GaveUp
    /\ devtools.polls = PollLimit
    /\ devtools.calls =
          << Called("Popen", "ok"), Called("terminate", "ok"),
             Called("wait", "raise"), Called("kill", "ok") >>
    /\ devtools.process = "exited"

\* ---- the direct database readers ----
\* C29: when a direct database read has returned, no temporary copy of the
\* cookie database is left on disk, whichever path the read took (deleting
\* a file and closing the connection themselves succeeding).
C29_NoCopyLeftOnDisk ==
    ( /\ dbread.stage = "called"
      /\ dbread.inp.unlink = "ok"
      /\ dbread.inp.close = "ok" ) => dbread.out.files = {}

\* ---- what load_config keeps of the file ----
\* the sections and the options written in a file, read line by line:
\* a header opens a section, a line with a delimiter under it is an option
\* (its name in lower case, its value stripped)
NoHeld == [sections |-> {}, options |-> {}]

IsBlankOrComment(line) == line = <<>> \/ Head(line) \in CommentPrefixes

HeaderName(raw) == SubSeq(Strip(raw), 2, HeaderEnd(Strip(raw)) - 1)

HeaderLines(lines) == {n \in DOMAIN lines : IsHeader(Strip(lines[n]))}

\* the header an option line stands under, 0 without one
HeaderBefore(lines, n) ==
    IF \E m \in HeaderLines(lines) : m < n
    THEN CHOOSE m \in HeaderLines(lines) :
            m < n /\ \A k \in HeaderLines(lines) : k < n => k <= m
    ELSE 0

OptionLines(lines) ==
    {n \in DOMAIN lines :
        /\ ~IsBlankOrComment(Strip(lines[n]))
        /\ ~IsHeader(Strip(lines[n]))
        /\ DelimiterAt(Strip(lines[n])) # 0
        /\ HeaderBefore(lines, n) # 0}

Held(file) ==
    IF ~file.exists THEN NoHeld
    ELSE [sections |-> {HeaderName(file.lines[n]) : n \in HeaderLines(file.lines)},
          options |->
             {[section |-> HeaderName(file.lines[HeaderBefore(file.lines, n)]),
               key |-> OptionName(Strip(file.lines[n]), DelimiterAt(Strip(file.lines[n]))),
               value |-> OptionValue(Strip(file.lines[n]), DelimiterAt(Strip(file.lines[n])))] :
              n \in OptionLines(file.lines)}]

\* the configuration returned holds the string value under the section and key
ConfigHolds(config, o) ==
    \E n \in DOMAIN config : \E m \in DOMAIN config[n].options :
        /\ config[n].name = o.section
        /\ config[n].options[m].key = o.key
        /\ config[n].options[m].value = o.value
        /\ ~config[n].options[m].raw

\* the option names the configuration has under a section
ConfigKeys(config, name) ==
    UNION { {config[n].options[m].key : m \in DOMAIN config[n].options} :
            n \in {k \in DOMAIN config : config[k].name = name} }

HeldKeys(held, name) == {o.key : o \in {x \in held.options : x.section = name}}

\* C30: load_config only adds what is missing: every section and key the
\* file held before the call has the same value in the configuration
\* returned and in the file after the call, and a default section the file
\* already held is neither replaced nor completed with default keys.
C30_OnlyAddsMissing ==
    \A i \in DOMAIN loads :
        LET before == Held(loads[i].before)
            after == Held(loads[i].after) IN
        /\ \A o \in before.options :
              ConfigHolds(loads[i].config, o) /\ o \in after.options
        /\ before.sections \subseteq after.sections
        /\ \A n \in DOMAIN DefaultSections :
              DefaultSections[n].name \in before.sections =>
                 ConfigKeys(loads[i].config, DefaultSections[n].name)
                    = HeldKeys(before, DefaultSections[n].name)

\* the same for a file that was opened, decoded and parsed without an error
\* and written back without one
CleanLoadsOnlyAdd ==
    \A i \in DOMAIN loads :
        LET before == Held(loads[i].before)
            after == Held(loads[i].after) IN
        (/\ loads[i].before.exists
         /\ loads[i].before.openRead = "ok"
         /\ loads[i].readError = "none"
         /\ loads[i].writeError = "none") =>
            /\ \A o \in before.options :
                  ConfigHolds(loads[i].config, o) /\ o \in after.options
            /\ before.sections \subseteq after.sections
            /\ \A n \in DOMAIN DefaultSections :
                  DefaultSections[n].name \in before.sections =>
                     ConfigKeys(loads[i].config, DefaultSections[n].name)
                        = HeldKeys(before, DefaultSections[n].name)

\* a file with a key of its own was loaded cleanly and more sections were added
CleanLoadAdded ==
    \E i \in DOMAIN loads :
        /\ loads[i].before.exists
        /\ loads[i].before.openRead = "ok"
        /\ loads[i].readError = "none"
        /\ loads[i].writeError = "none"
        /\ Held(loads[i].before).options # {}
        /\ Held(loads[i].after).sections # Held(loads[i].before).sections

====
